---- MODULE Spec2Model ----
(***************************************************************************)
(* Transportation-problem programs of the repository:                      *)
(*   - src/src/python_solver.py        class TransportationOptimizer       *)
(*   - src/solutions/python/csv_optimizer.py   main(): CSV -> LP -> report *)
(*   - src/solutions/python/optimization.py    module-level script         *)
(*   - src/src/model_formulation.py    class TransportationData            *)
(* One run of the model is one run of one of these programs (prog).        *)
(*                                                                         *)
(* The LP engine (PuLP + CBC) is an external library.  It is modelled by   *)
(* its contract: given the formulation the program built, it either raises *)
(* (solver unavailable / crashed), or reports "Infeasible" when no point   *)
(* satisfies the constraints, or reports "Optimal" together with any one   *)
(* of the cost-minimal feasible points.  Quantities are integers: with     *)
(* integer capacities and demands the basic optimal solutions of a         *)
(* transportation LP are integral.                                         *)
(***************************************************************************)
EXTENDS Integers, Sequences, FiniteSets, TLC

(***************************************************************************)
(* Bounds of the model.                                                    *)
(***************************************************************************)
\* largest capacity / demand an input may hold (smallest is -1)
MaxQty == 1
\* largest unit cost an input may hold (smallest is -1)
MaxCost == 1
\* number of attribute assignments a caller makes on a TransportationOptimizer
MaxChanges == 1
\* number of attribute assignments a caller makes on a TransportationData
MaxEdits == 2

QtyVals == (0 - 1)..MaxQty
CostVals == (0 - 1)..MaxCost

(***************************************************************************)
(* The node lists.  Python lists and dicts keep insertion order, so the    *)
(* warehouses and destinations are sequences.                              *)
(***************************************************************************)
Warehouses == <<"G1", "G2">>
Destinations == <<"T1", "T2">>

Range(s) == {s[k] : k \in 1..Len(s)}
W == Range(Warehouses)
D == Range(Destinations)
Pairs == W \X D

\* [(w, d) for w in warehouses for d in destinations]
RECURSIVE Concat(_)
Concat(ss) == IF ss = <<>> THEN <<>> ELSE Head(ss) \o Concat(Tail(ss))
PairList(ws, ds) == Concat([i \in 1..Len(ws) |-> [j \in 1..Len(ds) |-> <<ws[i], ds[j]>>]])

RECURSIVE SumSeq(_)
SumSeq(s) == IF s = <<>> THEN 0 ELSE Head(s) + SumSeq(Tail(s))

\* sum(d.values()) over a dict whose keys are listed in keys
SumValues(f, keys) == SumSeq([k \in 1..Len(keys) |-> f[keys[k]]])

EmptyFn == [p \in {} |-> 0]
ZeroAlloc == [p \in Pairs |-> 0]

(***************************************************************************)
(* The literal data of the constructors, scaled to the model's size: every *)
(* capacity, demand and cost positive, total supply above total demand.    *)
(***************************************************************************)
DefaultSupply == [w \in W |-> IF w = "G1" THEN 2 ELSE 1]
DefaultDemand == [d \in D |-> 1]
DefaultCosts == [p \in Pairs |-> IF p[1] = "G1" /\ p[2] = "T2" THEN 2 ELSE 1]

\* upper end of the box the solver model searches: no feasible point of a
\* formulation with a supply row per warehouse ships more than a capacity
BoxMax == IF MaxQty > 2 THEN MaxQty ELSE 2

(***************************************************************************)
(* Formulation: pulp.LpProblem as built by build_model /                   *)
(* optimize_transportation / the script.                                   *)
(***************************************************************************)
\* variant: variables created with lowBound=1
LpVariablesFromOne(ws, ds) == [names |-> PairList(ws, ds), lowBound |-> 1, upBound |-> <<>>]

\* variant: variables created with upBound=1
LpVariablesUpToOne(ws, ds) == [names |-> PairList(ws, ds), lowBound |-> 0, upBound |-> <<1>>]

\* pulp.LpVariable.dicts("Route", pairs, lowBound=0, cat='Continuous')
\* upBound is left at its default None: <<>> here, <<u>> for a bound u
LpVariables(ws, ds) == [names |-> PairList(ws, ds), lowBound |-> 0, upBound |-> <<>>]

\* lpSum([costs[(w, d)] * x[(w, d)] for w in warehouses for d in destinations])
LpObjective(ws, ds, c) ==
    LET ps == PairList(ws, ds)
    IN  [k \in 1..Len(ps) |-> [coef |-> c[ps[k]], var |-> ps[k]]]

\* variant: a supply row that allows one unit above the capacity
SupplyConstraintLoose(w, ds, s) ==
    [name |-> <<"Supply", w>>,
     terms |-> [j \in 1..Len(ds) |-> <<w, ds[j]>>],
     sense |-> "<=",
     rhs |-> s[w] + 1]

\* lpSum([x[(w, d)] for d in destinations]) <= supply[w], "Supply_w"
SupplyConstraint(w, ds, s) ==
    [name |-> <<"Supply", w>>,
     terms |-> [j \in 1..Len(ds) |-> <<w, ds[j]>>],
     sense |-> "<=",
     rhs |-> s[w]]

\* variant: a demand row written with <= in place of ==
DemandConstraintAtMost(d, ws, dm) ==
    [name |-> <<"Demand", d>>,
     terms |-> [i \in 1..Len(ws) |-> <<ws[i], d>>],
     sense |-> "<=",
     rhs |-> dm[d]]

\* lpSum([x[(w, d)] for w in warehouses]) == demand[d], "Demand_d"
DemandConstraint(d, ws, dm) ==
    [name |-> <<"Demand", d>>,
     terms |-> [i \in 1..Len(ws) |-> <<ws[i], d>>],
     sense |-> "==",
     rhs |-> dm[d]]

\* the objective reads costs[(w, d)] for every pair: a pair without an entry
\* raises KeyError while the formulation is being built
BuildRaisesKeyError(ws, ds, c) == \E p \in Range(PairList(ws, ds)) : p \notin DOMAIN c

\* variant: a formulation without the supply rows
BuildLpNoSupplyRows(ws, ds, s, dm, c) ==
    [vars |-> LpVariables(ws, ds),
     objective |-> LpObjective(ws, ds, c),
     constraints |-> [j \in 1..Len(ds) |-> DemandConstraint(ds[j], ws, dm)]]

\* variant: no supply rows, and demand rows that ask for at least the demand
BuildLpAtLeastDemand(ws, ds, s, dm, c) ==
    [vars |-> LpVariables(ws, ds),
     objective |-> LpObjective(ws, ds, c),
     constraints |-> [j \in 1..Len(ds) |->
                         [DemandConstraint(ds[j], ws, dm) EXCEPT !.sense = ">="]]]

\* the whole formulation: variables, objective, supply rows, demand rows
BuildLp(ws, ds, s, dm, c) ==
    [vars |-> LpVariables(ws, ds),
     objective |-> LpObjective(ws, ds, c),
     constraints |-> [i \in 1..Len(ws) |-> SupplyConstraint(ws[i], ds, s)]
                     \o [j \in 1..Len(ds) |-> DemandConstraint(ds[j], ws, dm)]]

\* no formulation yet (self.model = None)
NoLp == [vars |-> [names |-> <<>>, lowBound |-> 0, upBound |-> <<>>], objective |-> <<>>, constraints |-> <<>>]

(***************************************************************************)
(* The external LP engine, by contract.                                    *)
(***************************************************************************)
\* Bound tightening: the variables are non-negative and enter every row
\* with coefficient 1, so no feasible point gives a variable more than the
\* right-hand side of a row it is in.  UpperBound only shrinks the box that
\* Feasible filters; it removes no feasible point.
UpperBound(lp, p) ==
    LET rows == {k \in 1..Len(lp.constraints) : p \in Range(lp.constraints[k].terms)}
        caps == {lp.constraints[k].rhs : k \in rows} \cup {BoxMax} \cup Range(lp.vars.upBound)
    IN  CHOOSE m \in caps : \A n \in caps : m <= n

\* the assignments of a value lowBound..UpperBound to each listed variable
RECURSIVE BoxOver(_, _)
BoxOver(lp, names) ==
    IF names = <<>>
    THEN {EmptyFn}
    ELSE {(Head(names) :> k) @@ f :
            k \in lp.vars.lowBound..UpperBound(lp, Head(names)),
            f \in BoxOver(lp, Tail(names))}

VarBox(lp) == BoxOver(lp, lp.vars.names)

Lhs(c, v) == SumSeq([k \in 1..Len(c.terms) |-> v[c.terms[k]]])

Satisfies(c, v) ==
    CASE c.sense = "<=" -> Lhs(c, v) <= c.rhs
      [] c.sense = ">=" -> Lhs(c, v) >= c.rhs
      [] OTHER -> Lhs(c, v) = c.rhs

Feasible(lp) == {v \in VarBox(lp) : \A k \in 1..Len(lp.constraints) : Satisfies(lp.constraints[k], v)}

\* pulp.value(model.objective)
ObjectiveValue(lp, v) == SumSeq([k \in 1..Len(lp.objective) |-> lp.objective[k].coef * v[lp.objective[k].var]])

\* variant: a solver that stops at any feasible point
LeastCostAnyFeasible(lp, F) == F

\* the feasible points of least objective value
LeastCost(lp, F) ==
    LET obj == [v \in F |-> ObjectiveValue(lp, v)]
    IN  {v \in F : \A u \in F : obj[v] <= obj[u]}

\* Directions in which the feasible region goes on for ever: a variable with
\* a lower bound cannot fall along one, a variable with an upper bound cannot
\* rise, a <= row cannot grow, a >= row cannot shrink, an == row stays.  The
\* rows have coefficients 0 and 1 with each variable in at most one row of a
\* kind, so a direction with entries -1, 0, 1 exists whenever any exists.
RayValues(lp) == {k \in {0 - 1, 0, 1} : k >= 0 /\ (lp.vars.upBound # <<>> => k <= 0)}

RowAllows(c, r) ==
    CASE c.sense = "<=" -> Lhs(c, r) <= 0
      [] c.sense = ">=" -> Lhs(c, r) >= 0
      [] OTHER -> Lhs(c, r) = 0

Rays(lp) ==
    {r \in [Range(lp.vars.names) -> RayValues(lp)] :
        /\ \E p \in Range(lp.vars.names) : r[p] # 0
        /\ \A k \in 1..Len(lp.constraints) : RowAllows(lp.constraints[k], r)}

\* a minimisation is unbounded when it is feasible and the objective falls
\* along some direction of the region
Unbounded(lp, F) == F # {} /\ \E r \in Rays(lp) : ObjectiveValue(lp, r) < 0

\* what one call model.solve(PULP_CBC_CMD(...)) can do: raise, or set the
\* status and the variables' values.  On a non-optimal status the values CBC
\* leaves in the variables are not specified (known = FALSE).
SolverOutcomes(lp) ==
    LET F == Feasible(lp)
    IN  {[raised |-> TRUE, status |-> "Not Solved", known |-> FALSE, values |-> ZeroAlloc]}
        \cup (IF F = {}
              THEN {[raised |-> FALSE, status |-> "Infeasible", known |-> FALSE, values |-> ZeroAlloc]}
              ELSE IF Unbounded(lp, F)
              THEN {[raised |-> FALSE, status |-> "Unbounded", known |-> FALSE, values |-> ZeroAlloc]}
              ELSE {[raised |-> FALSE, status |-> "Optimal", known |-> TRUE, values |-> v] :
                        v \in LeastCost(lp, F)})

(***************************************************************************)
(* Result interpretation shared by the three solving programs.             *)
(***************************************************************************)
\* used / capacity * 100 as an exact fraction; Python raises
\* ZeroDivisionError when capacity = 0, so the callers test that first
Pct(used, capacity) == [num |-> used * 100, den |-> capacity]

\* sum of the values of the variables of warehouse w over the destinations
RowTotal(w, ds, val) == SumSeq([j \in 1..Len(ds) |-> val[<<w, ds[j]>>]])

\* sum of the values of the variables of destination d over the warehouses
ColTotal(d, ws, val) == SumSeq([i \in 1..Len(ws) |-> val[<<ws[i], d>>]])

\* variant: a utilization row whose unused figure is the whole capacity
UtilRowUnusedIsCapacity(w, ds, s, val) ==
    [capacity |-> s[w],
     used |-> RowTotal(w, ds, val),
     unused |-> s[w],
     pct |-> Pct(RowTotal(w, ds, val), s[w])]

\* one row of the utilization table
UtilRow(w, ds, s, val) ==
    [capacity |-> s[w],
     used |-> RowTotal(w, ds, val),
     unused |-> s[w] - RowTotal(w, ds, val),
     pct |-> Pct(RowTotal(w, ds, val), s[w])]

\* index of the first warehouse whose capacity is 0 (Len + 1 when none):
\* the utilization loop raises ZeroDivisionError there
FirstZeroCapacity(ws, s) ==
    IF \E k \in 1..Len(ws) : s[ws[k]] = 0
    THEN CHOOSE k \in 1..Len(ws) : s[ws[k]] = 0 /\ \A h \in 1..(k - 1) : s[ws[h]] # 0
    ELSE Len(ws) + 1

UtilRaises(ws, s) == FirstZeroCapacity(ws, s) <= Len(ws)

\* the rows a loop that prints row by row gets out before it raises
UtilPrinted(ws, ds, s, val) ==
    [w \in {ws[k] : k \in 1..(FirstZeroCapacity(ws, s) - 1)} |-> UtilRow(w, ds, s, val)]

\* the rows of a loop that collects all rows and prints after the loop
UtilCollected(ws, ds, s, val) ==
    IF UtilRaises(ws, s) THEN EmptyFn ELSE [w \in Range(ws) |-> UtilRow(w, ds, s, val)]

\* variant: routes kept by "if value >= 0"
ExtractRoutesFromZero(ws, ds, val) ==
    [p \in {q \in Range(PairList(ws, ds)) : val[q] >= 0} |-> val[p]]

\* the routes kept by "if value > 0": the sparse mapping pair -> quantity
ExtractRoutes(ws, ds, val) ==
    [p \in {q \in Range(PairList(ws, ds)) : val[q] > 0} |-> val[p]]

\* variant: a line cost that leaves the unit cost out
ShipmentLinesQuantityOnly(routes, c) ==
    [p \in DOMAIN routes |-> [quantity |-> routes[p], unit_cost |-> c[p], total_cost |-> routes[p]]]

\* shipment lines: quantity, unit cost, quantity * unit cost, per kept route
ShipmentLines(routes, c) ==
    [p \in DOMAIN routes |-> [quantity |-> routes[p], unit_cost |-> c[p], total_cost |-> c[p] * routes[p]]]

\* total_cost accumulated over the shipment lines, in route order
TotalOfLines(ws, ds, lines) ==
    LET ps == SelectSeq(PairList(ws, ds), LAMBDA p : p \in DOMAIN lines)
    IN  SumSeq([k \in 1..Len(ps) |-> lines[ps[k]].total_cost])

\* per destination, the sum received
Fulfillment(ws, ds, val) == [d \in Range(ds) |-> ColTotal(d, ws, val)]

(***************************************************************************)
(* TransportationData.validate_data                                        *)
(***************************************************************************)
\* variant: the supply loop testing capacity < 0
SupplyErrorsBelowZero(ws, s) ==
    LET bad == SelectSeq(ws, LAMBDA w : s[w] < 0)
    IN  [k \in 1..Len(bad) |-> [msg |-> "Supply must be positive", key |-> <<bad[k]>>]]

SupplyErrors(ws, s) ==
    LET bad == SelectSeq(ws, LAMBDA w : s[w] <= 0)
    IN  [k \in 1..Len(bad) |-> [msg |-> "Supply must be positive", key |-> <<bad[k]>>]]

DemandErrors(ds, dm) ==
    LET bad == SelectSeq(ds, LAMBDA d : dm[d] <= 0)
    IN  [k \in 1..Len(bad) |-> [msg |-> "Demand must be positive", key |-> <<bad[k]>>]]

NegativeCostErrors(ws, ds, c) ==
    LET bad == SelectSeq(PairList(ws, ds), LAMBDA p : p \in DOMAIN c /\ c[p] < 0)
    IN  [k \in 1..Len(bad) |-> [msg |-> "Cost cannot be negative", key |-> bad[k]]]

MissingCostErrors(ws, ds, c) ==
    LET bad == SelectSeq(PairList(ws, ds), LAMBDA p : p \notin DOMAIN c)
    IN  [k \in 1..Len(bad) |-> [msg |-> "Cost not defined for route", key |-> bad[k]]]

\* variant: a validation that returns at the first error
ValidationErrorsFirstOnly(ws, ds, s, dm, c) ==
    LET all == SupplyErrors(ws, s) \o DemandErrors(ds, dm) \o NegativeCostErrors(ws, ds, c) \o MissingCostErrors(ws, ds, c)
    IN  SubSeq(all, 1, IF Len(all) > 0 THEN 1 ELSE 0)

\* errors, in the order the four loops append them
ValidationErrors(ws, ds, s, dm, c) ==
    SupplyErrors(ws, s) \o DemandErrors(ds, dm) \o NegativeCostErrors(ws, ds, c) \o MissingCostErrors(ws, ds, c)

\* (is_valid, errors)
validate_data_result(ws, ds, s, dm, c) ==
    [done |-> TRUE,
     is_valid |-> Len(ValidationErrors(ws, ds, s, dm, c)) = 0,
     errors |-> ValidationErrors(ws, ds, s, dm, c)]

(***************************************************************************)
(* State.                                                                  *)
(***************************************************************************)
VARIABLES
    prog,          \* the program this run executes
    csvFile,       \* data_input.csv: "present" or "absent" ("n/a" for the other programs)
    pc,            \* position in a script's top-level code ("api" for an object)
    supply,        \* warehouse -> capacity
    demand,        \* destination -> requirement
    costs,         \* (warehouse, destination) -> unit cost; a dict, entries may be absent
    nchanges,      \* attribute assignments made so far on the object
    model,         \* the pulp problem: built?, formulation, status after solve
    x,             \* the decision variables' varValue
    solution,      \* TransportationOptimizer.solution
    ret,           \* how the most recent call / step ended
    solverInvoked, \* whether the external solver has been called in this run
    report,        \* what the result display produced
    validation,    \* what validate_data returned
    work,          \* the solver's work on a basic solution: what is left to assign
    balance,       \* the balance line the most recent call printed: kind and amount
    matrix,        \* the cost matrix the most recent call got from get_cost_matrix
    solves,        \* what the last two solves that returned printed, latest first
    objects,       \* two TransportationOptimizer objects of one process and their dicts
    parse,         \* read_csv_data at work: the file's lines, the position, the locals
    excel,         \* ExcelSolverHelper: its data, the workbook file, the last call's outcome
    disk           \* ProjectSetup: the project root's paths, the setup log, the last call

vars == <<prog, csvFile, pc, supply, demand, costs, nchanges, model, x, solution, ret,
          solverInvoked, report, validation, work, balance, matrix, solves, objects, parse,
          excel, disk>>

\* read_csv_data not followed line by line
NoParse == <<>>
\* no ExcelSolverHelper in the run
NoExcel == <<>>
\* no ProjectSetup in the run
NoDisk == <<>>
\* no second object in the run
NoObjects == <<>>
\* no cost matrix returned yet
NoMatrix == EmptyFn
NoModel == [built |-> FALSE, lp |-> NoLp, status |-> "Not Solved"]
\* x.state: "NoAttr" no variables created yet, "None" created and unsolved,
\* "Solved" values of an optimal point, "Unspecified" values left by a
\* non-optimal solve
NoX == [state |-> "NoAttr", val |-> ZeroAlloc]
FreshX == [state |-> "None", val |-> ZeroAlloc]
NoneSolution == [isNone |-> TRUE, routes |-> EmptyFn]
NoRet == [op |-> "", raised |-> FALSE, exc |-> "", value |-> "", status |-> ""]
Returned(op, value, status) == [op |-> op, raised |-> FALSE, exc |-> "", value |-> value, status |-> status]
Raised(op, exc) == [op |-> op, raised |-> TRUE, exc |-> exc, value |-> "", status |-> ""]
\* an exception caught by a handler that prints "Error: <message>" and returns
Caught(op, exc) == [op |-> op, raised |-> FALSE, exc |-> exc, value |-> "None", status |-> "Error"]
NoReport ==
    [made |-> FALSE, status |-> "", valuesRead |-> FALSE, specified |-> TRUE,
     shipments |-> EmptyFn, total_cost |-> 0, util |-> EmptyFn, fulfil |-> EmptyFn,
     saved |-> FALSE, exc |-> "", comparison |-> EmptyFn, summary |-> <<>>]
NoValidation == [done |-> FALSE, is_valid |-> FALSE, errors |-> <<>>]
NoBalance == [kind |-> "", amount |-> 0]
NoWork == [rowLeft |-> EmptyFn, colLeft |-> EmptyFn, unused |-> EmptyFn, surplusLeft |-> 0]

Programs == {"python_solver", "model_formulation", "csv_optimizer", "optimization"}

\* a cost table read from a CSV: one complete row per warehouse that has a
\* COSTS line, no row for the others
CsvCostTables == UNION {[rows \X D -> CostVals] : rows \in SUBSET W}

(***************************************************************************)
(* Init: the objects hold their constructor's data; the CSV program's data *)
(* is whatever data_input.csv holds; the script's data block is its input. *)
(***************************************************************************)
Init ==
    /\ prog \in Programs
    /\ \/ /\ prog \in {"python_solver", "model_formulation"}
          /\ pc = "api"
          /\ csvFile = "n/a"
          /\ supply = DefaultSupply
          /\ demand = DefaultDemand
          /\ costs = DefaultCosts
       \/ /\ prog = "csv_optimizer"
          /\ pc = "main"
          /\ csvFile = "present"
          /\ supply \in [W -> QtyVals]
          /\ demand \in [D -> QtyVals]
          /\ costs \in CsvCostTables
       \/ /\ prog = "csv_optimizer"
          /\ pc = "main"
          /\ csvFile = "absent"
          /\ supply = EmptyFn
          /\ demand = EmptyFn
          /\ costs = EmptyFn
       \/ /\ prog = "optimization"
          /\ pc = "main"
          /\ csvFile = "n/a"
          /\ supply \in [W -> QtyVals]
          /\ demand \in [D -> QtyVals]
          /\ costs \in [Pairs -> CostVals]
    /\ nchanges = 0
    /\ model = NoModel
    /\ x = NoX
    /\ solution = NoneSolution
    /\ ret = NoRet
    /\ solverInvoked = FALSE
    /\ report = NoReport
    /\ validation = NoValidation
    /\ work = NoWork
    /\ balance = NoBalance
    /\ matrix = NoMatrix
    /\ solves = <<>>
    /\ objects = NoObjects
    /\ parse = NoParse
    /\ excel = NoExcel
    /\ disk = NoDisk

(***************************************************************************)
(* A caller assigning to the public attributes of a constructed object.    *)
(***************************************************************************)
IsObject == prog \in {"python_solver", "model_formulation"} /\ pc = "api"

ChangeLimit == IF prog = "model_formulation" THEN MaxEdits ELSE MaxChanges

set_supply(w, v) ==
    /\ IsObject /\ nchanges < ChangeLimit /\ v # supply[w]
    /\ supply' = [supply EXCEPT ![w] = v]
    /\ nchanges' = nchanges + 1
    /\ ret' = Returned("setattr", "", "")
    /\ balance' = NoBalance /\ matrix' = NoMatrix
    /\ UNCHANGED <<disk, excel, parse, objects, solves, work, prog, csvFile, pc, demand, costs, model, x, solution, solverInvoked, report, validation>>

set_demand(d, v) ==
    /\ IsObject /\ nchanges < ChangeLimit /\ v # demand[d]
    /\ demand' = [demand EXCEPT ![d] = v]
    /\ nchanges' = nchanges + 1
    /\ ret' = Returned("setattr", "", "")
    /\ balance' = NoBalance /\ matrix' = NoMatrix
    /\ UNCHANGED <<disk, excel, parse, objects, solves, work, prog, csvFile, pc, supply, costs, model, x, solution, solverInvoked, report, validation>>

set_cost(p, v) ==
    /\ IsObject /\ nchanges < ChangeLimit /\ p \in DOMAIN costs /\ v # costs[p]
    /\ costs' = [costs EXCEPT ![p] = v]
    /\ nchanges' = nchanges + 1
    /\ ret' = Returned("setattr", "", "")
    /\ balance' = NoBalance /\ matrix' = NoMatrix
    /\ UNCHANGED <<disk, excel, parse, objects, solves, work, prog, csvFile, pc, supply, demand, model, x, solution, solverInvoked, report, validation>>

\* del data.costs[(w, d)] on the data object, whose validate_data looks for
\* absent entries
del_cost(p) ==
    /\ prog = "model_formulation" /\ pc = "api" /\ nchanges < ChangeLimit /\ p \in DOMAIN costs
    /\ costs' = [q \in DOMAIN costs \ {p} |-> costs[q]]
    /\ nchanges' = nchanges + 1
    /\ ret' = Returned("setattr", "", "")
    /\ balance' = NoBalance /\ matrix' = NoMatrix
    /\ UNCHANGED <<disk, excel, parse, objects, solves, work, prog, csvFile, pc, supply, demand, model, x, solution, solverInvoked, report, validation>>

(***************************************************************************)
(* The cost matrix: one cell per (warehouse, destination).                 *)
(***************************************************************************)
\* a cell of the DataFrame: a cost, or np.inf
Finite(c) == [finite |-> TRUE, value |-> c]
Infinity == [finite |-> FALSE, value |-> 0]

\* self.costs.get((warehouse, destination), np.inf)
CostOrInf(c, p) == IF p \in DOMAIN c THEN Finite(c[p]) ELSE Infinity

CostMatrix(ws, ds, c) == [p \in Range(PairList(ws, ds)) |-> CostOrInf(c, p)]

(***************************************************************************)
(* The balance line, as each program computes it from the two totals.      *)
(***************************************************************************)
Balanced == [kind |-> "BALANCED", amount |-> 0]
Surplus(n) == [kind |-> "SURPLUS", amount |-> n]
Shortage(n) == [kind |-> "SHORTAGE", amount |-> n]

Abs(n) == IF n < 0 THEN 0 - n ELSE n

\* print_problem_summary: is_balanced(), else the sign of diff
SummaryBalance(ts, td) ==
    IF ts = td
    THEN Balanced
    ELSE LET diff == ts - td
         IN  IF diff > 0 THEN Surplus(diff) ELSE Shortage(0 - diff)

\* variant: main testing balance >= 0 first
CsvBalanceFromZero(ts, td) ==
    LET bal == ts - td
    IN  IF bal >= 0 THEN Surplus(bal)
        ELSE IF bal < 0 THEN Shortage(Abs(bal))
        ELSE Balanced

\* csv_optimizer.main: balance = sum(supply) - sum(demand), then its sign
CsvBalance(ts, td) ==
    LET bal == ts - td
    IN  IF bal > 0 THEN Surplus(bal)
        ELSE IF bal < 0 THEN Shortage(Abs(bal))
        ELSE Balanced

\* optimization.py: the two totals compared
ScriptBalance(ts, td) ==
    IF ts > td THEN Surplus(ts - td)
    ELSE IF ts < td THEN Shortage(td - ts)
    ELSE Balanced

(***************************************************************************)
(* model_formulation.py: TransportationData.print_problem_summary          *)
(***************************************************************************)
print_problem_summary ==
    /\ prog = "model_formulation" /\ pc = "api"
    /\ matrix' = CostMatrix(Warehouses, Destinations, costs)
    /\ balance' = SummaryBalance(SumValues(supply, Warehouses), SumValues(demand, Destinations))
    /\ ret' = Returned("print_problem_summary", "None", "")
    /\ UNCHANGED <<disk, excel, parse, objects, solves, work, prog, csvFile, pc, supply, demand, costs, nchanges, model, x, solution,
                   solverInvoked, report, validation>>

(***************************************************************************)
(* model_formulation.py: TransportationData.get_cost_matrix                *)
(***************************************************************************)
get_cost_matrix ==
    /\ prog = "model_formulation" /\ pc = "api"
    /\ matrix' = CostMatrix(Warehouses, Destinations, costs)
    /\ balance' = NoBalance
    /\ ret' = Returned("get_cost_matrix", "DataFrame", "")
    /\ UNCHANGED <<disk, excel, parse, objects, solves, work, prog, csvFile, pc, supply, demand, costs, nchanges, model, x,
                   solution, solverInvoked, report, validation>>

(***************************************************************************)
(* model_formulation.py: TransportationData.validate_data                  *)
(***************************************************************************)
validate_data ==
    /\ prog = "model_formulation" /\ pc = "api"
    /\ validation' = validate_data_result(Warehouses, Destinations, supply, demand, costs)
    /\ ret' = Returned("validate_data", "", "")
    /\ balance' = NoBalance /\ matrix' = NoMatrix
    /\ UNCHANGED <<disk, excel, parse, objects, solves, work, prog, csvFile, pc, supply, demand, costs, nchanges, model, x, solution, solverInvoked, report>>

(***************************************************************************)
(* python_solver.py: TransportationOptimizer                               *)
(***************************************************************************)
\* build_model: a new problem and new variables from the data held now
build_model ==
    /\ prog = "python_solver" /\ pc = "api"
    /\ model' = [built |-> TRUE,
                 lp |-> BuildLp(Warehouses, Destinations, supply, demand, costs),
                 status |-> "Not Solved"]
    /\ x' = FreshX
    /\ ret' = Returned("build_model", "None", "")
    /\ UNCHANGED <<disk, excel, parse, objects, solves, matrix, work, balance, prog, csvFile, pc, supply, demand, costs, nchanges, solution, solverInvoked, report, validation>>

\* self.solution after a solve that reported status st with values val
SolutionAfterSolve(st, val, old) ==
    IF st = "Optimal"
    THEN [isNone |-> FALSE, routes |-> ExtractRoutes(Warehouses, Destinations, val)]
    ELSE old

\* solve up to its return: self.model.solve(...) with no handler around it,
\* then the branch on the status
SolveCall ==
    /\ prog = "python_solver" /\ pc = "api"
    /\ IF ~model.built
       THEN \* self.model is None: AttributeError before any solver call
            /\ ret' = Raised("solve", "AttributeError")
            /\ UNCHANGED <<model, x, solution, solverInvoked>>
       ELSE \E o \in SolverOutcomes(model.lp) :
            /\ solverInvoked' = TRUE
            /\ IF o.raised
               THEN /\ ret' = Raised("solve", "PulpSolverError")
                    /\ UNCHANGED <<model, x, solution>>
               ELSE /\ model' = [model EXCEPT !.status = o.status]
                    /\ x' = [state |-> IF o.known THEN "Solved" ELSE "Unspecified", val |-> o.values]
                    /\ solution' = SolutionAfterSolve(o.status, o.values, solution)
                    /\ ret' = Returned("solve", IF o.status = "Optimal" THEN "True" ELSE "False", o.status)
    /\ UNCHANGED <<disk, excel, parse, objects, matrix, work, balance, prog, csvFile, pc, supply, demand, costs, nchanges, report, validation>>

solve ==
    /\ SolveCall
    /\ UNCHANGED solves

\* what solve prints when the solver returns: the status line, and on
\* Optimal the minimum total cost; kept with the formulation solved
SolvePrinted(lp, st, val) ==
    [lp |-> lp,
     status |-> st,
     objective |-> IF st = "Optimal" THEN <<ObjectiveValue(lp, val)>> ELSE <<>>]

\* the same call in a run that keeps what the last two returning solves
\* printed
solve_logged ==
    /\ SolveCall
    /\ solves' = IF ret'.raised
                 THEN solves
                 ELSE <<SolvePrinted(model.lp, model'.status, x'.val)>>
                          \o (IF solves = <<>> THEN <<>> ELSE <<solves[1]>>)

\* "if not self.solution": None and the empty dict both count as no solution
NoSolutionToShow(sol) == sol.isNone \/ DOMAIN sol.routes = {}

\* varValue if varValue else 0
ValueOrZero(xs) == IF xs.state = "Solved" THEN xs.val ELSE ZeroAlloc

\* the reporting methods assign to no attribute of self
ReportFrameClearsSolution ==
    /\ solution' = NoneSolution
    /\ UNCHANGED <<disk, excel, parse, objects, solves, matrix, work, balance, prog, csvFile, pc, supply, demand, costs,
                   nchanges, model, x, solverInvoked, validation>>

ReportFrame ==
    UNCHANGED <<disk, excel, parse, objects, solves, matrix, work, balance, prog, csvFile, pc, supply, demand, costs,
                nchanges, model, x, solution, solverInvoked, validation>>

\* display_results: allocation table and totals from the variables, cost
\* breakdown from self.solution, utilization collected and printed last
display_results ==
    /\ prog = "python_solver" /\ pc = "api"
    /\ IF NoSolutionToShow(solution)
       THEN /\ report' = NoReport
            /\ ret' = Returned("display_results", "None", "")
       ELSE LET val == ValueOrZero(x)
                lines == ShipmentLines(solution.routes, costs)
                fails == UtilRaises(Warehouses, supply)
            IN  /\ report' =
                     [made |-> TRUE,
                      status |-> model.status,
                      valuesRead |-> TRUE,
                      specified |-> x.state # "Unspecified",
                      shipments |-> lines,
                      total_cost |-> TotalOfLines(Warehouses, Destinations, lines),
                      util |-> UtilCollected(Warehouses, Destinations, supply, val),
                      fulfil |-> Fulfillment(Warehouses, Destinations, val),
                      saved |-> FALSE,
                      exc |-> IF fails THEN "ZeroDivisionError" ELSE "",
                      comparison |-> EmptyFn, summary |-> <<>>]
                /\ ret' = IF fails
                          THEN Raised("display_results", "ZeroDivisionError")
                          ELSE Returned("display_results", "tables", "")
    /\ ReportFrame

\* cost_by_warehouse: the wedge sizes of the pie chart
CostByWarehouse(ws, ds, c, val) ==
    [w \in Range(ws) |-> SumSeq([k \in 1..Len(ds) |-> c[<<w, ds[k]>>] * val[<<w, ds[k]>>]])]

\* what drawing the figure can raise: pct = u / (u + un) * 100 with a
\* capacity of 0; ax.pie on a negative wedge size; with all wedge sizes 0
\* the pie divides 0 by 0, and whether that raises is left to the library
FigureExceptions(ws, ds, s, c, val) ==
    IF UtilRaises(ws, s) THEN {"ZeroDivisionError"}
    ELSE IF \E w \in Range(ws) : CostByWarehouse(ws, ds, c, val)[w] < 0 THEN {"ValueError"}
    ELSE IF \A w \in Range(ws) : CostByWarehouse(ws, ds, c, val)[w] = 0 THEN {"", "ValueError"}
    ELSE {""}

\* visualize_solution: the four charts drawn from the variables and the
\* data, saved as a PNG when nothing raised
visualize_solution ==
    /\ prog = "python_solver" /\ pc = "api"
    /\ IF NoSolutionToShow(solution)
       THEN /\ report' = NoReport
            /\ ret' = Returned("visualize_solution", "None", "")
       ELSE \E e \in FigureExceptions(Warehouses, Destinations, supply, costs, ValueOrZero(x)) :
            /\ report' =
                  [made |-> TRUE,
                   status |-> model.status,
                   valuesRead |-> TRUE,
                   specified |-> x.state # "Unspecified",
                   shipments |-> EmptyFn,
                   total_cost |-> 0,
                   util |-> IF e = ""
                            THEN UtilCollected(Warehouses, Destinations, supply, ValueOrZero(x))
                            ELSE EmptyFn,
                   fulfil |-> EmptyFn,
                   saved |-> e = "",
                   exc |-> e,
                   comparison |-> EmptyFn, summary |-> <<>>]
            /\ ret' = IF e # ""
                      THEN Raised("visualize_solution", e)
                      ELSE Returned("visualize_solution", "None", "")
    /\ ReportFrame

\* variant: the sheet showing the whole supply as not used
RingkasanUnusedIsSupply(ws, ds, s, dm, lp, xs) ==
    [total_cost |-> IF xs.state = "Solved" THEN <<ObjectiveValue(lp, xs.val)>> ELSE <<>>,
     total_supply |-> SumValues(s, ws),
     total_demand |-> SumValues(dm, ds),
     used |-> SumSeq([k \in 1..Len(ws) |-> RowTotal(ws[k], ds, ValueOrZero(xs))]),
     unused |-> SumValues(s, ws)]

\* the Ringkasan sheet: total cost, total supply, total demand, supply used,
\* supply not used; the total cost is None while no variable has a value
Ringkasan(ws, ds, s, dm, lp, xs) ==
    [total_cost |-> IF xs.state = "Solved" THEN <<ObjectiveValue(lp, xs.val)>> ELSE <<>>,
     total_supply |-> SumValues(s, ws),
     total_demand |-> SumValues(dm, ds),
     used |-> SumSeq([k \in 1..Len(ws) |-> RowTotal(ws[k], ds, ValueOrZero(xs))]),
     unused |-> SumValues(s, ws)
                    - SumSeq([k \in 1..Len(ws) |-> RowTotal(ws[k], ds, ValueOrZero(xs))])]

\* export_to_excel: sheets Alokasi (from the variables), Detail Biaya (from
\* self.solution) and Ringkasan, written to the workbook
export_to_excel ==
    /\ prog = "python_solver" /\ pc = "api"
    /\ IF NoSolutionToShow(solution)
       THEN /\ report' = NoReport
            /\ ret' = Returned("export_to_excel", "None", "")
       ELSE LET lines == ShipmentLines(solution.routes, costs)
            IN  /\ report' =
                      [made |-> TRUE,
                       status |-> model.status,
                       valuesRead |-> TRUE,
                       specified |-> x.state # "Unspecified",
                       shipments |-> lines,
                       total_cost |-> TotalOfLines(Warehouses, Destinations, lines),
                       util |-> EmptyFn,
                       fulfil |-> EmptyFn,
                       saved |-> TRUE,
                       exc |-> "",
                       comparison |-> EmptyFn,
                       summary |-> <<Ringkasan(Warehouses, Destinations, supply, demand,
                                               model.lp, x)>>]
                /\ ret' = Returned("export_to_excel", "None", "")
    /\ ReportFrame

(***************************************************************************)
(* The report computed from known variable values: shipment lines kept by  *)
(* "if qty > 0", utilization printed row by row, fulfillment; saved to the *)
(* JSON file when no step raised.                                          *)
(***************************************************************************)
ReportFromValues(st, val, s, c) ==
    LET lines == ShipmentLines(ExtractRoutes(Warehouses, Destinations, val), c)
        fails == UtilRaises(Warehouses, s)
    IN  [made |-> TRUE,
         status |-> st,
         valuesRead |-> TRUE,
         specified |-> TRUE,
         shipments |-> lines,
         total_cost |-> TotalOfLines(Warehouses, Destinations, lines),
         util |-> UtilPrinted(Warehouses, Destinations, s, val),
         fulfil |-> Fulfillment(Warehouses, Destinations, val),
         saved |-> ~fails,
         exc |-> IF fails THEN "ZeroDivisionError" ELSE "",
         comparison |-> EmptyFn, summary |-> <<>>]

\* the same code run on values a non-optimal solve left behind: the figures
\* are not specified; the division by a zero capacity still raises
ReportFromUnspecified(st, s) ==
    [made |-> TRUE,
     status |-> st,
     valuesRead |-> TRUE,
     specified |-> FALSE,
     shipments |-> EmptyFn,
     total_cost |-> 0,
     util |-> EmptyFn,
     fulfil |-> EmptyFn,
     saved |-> ~UtilRaises(Warehouses, s),
     exc |-> IF UtilRaises(Warehouses, s) THEN "ZeroDivisionError" ELSE "",
     comparison |-> EmptyFn, summary |-> <<>>]

(***************************************************************************)
(* csv_optimizer.py: main() = read_csv_data; optimize_transportation;      *)
(* display_results, inside try / except FileNotFoundError / Exception.     *)
(* Nothing runs between its steps, so main() is one action; Ends are the   *)
(* ways it can end: the problem and variables it built, whether the solver *)
(* was called, the report, and how main returned (ret).                    *)
(***************************************************************************)
End(m, xs, invoked, rep, r) == [model |-> m, x |-> xs, solverInvoked |-> invoked, report |-> rep, ret |-> r]

\* what csv display_results does for a problem with status st
CsvDisplay(st, xs, s, c) ==
    IF st = "Optimal"
    THEN ReportFromValues(st, xs.val, s, c)
    ELSE [NoReport EXCEPT !.made = TRUE, !.status = st]

\* display_results(prob, x, ...) and the return to main
CsvDisplayEnd(m, xs, s, c) ==
    LET rep == CsvDisplay(m.status, xs, s, c)
    IN  End(m, xs, TRUE, rep,
            IF rep.exc # "" THEN Caught("display_results", rep.exc)
                            ELSE Returned("main", "None", m.status))

\* optimize_transportation, then display_results on what it returned
CsvOptimizeEnds(s, dm, c) ==
    IF BuildRaisesKeyError(Warehouses, Destinations, c)
    THEN {End(NoModel, NoX, FALSE, NoReport, Caught("optimize_transportation", "KeyError"))}
    ELSE LET lp == BuildLp(Warehouses, Destinations, s, dm, c)
         IN  {IF o.raised
              THEN End(NoModel, NoX, TRUE, NoReport, Caught("optimize_transportation", "PulpSolverError"))
              ELSE CsvDisplayEnd([built |-> TRUE, lp |-> lp, status |-> o.status],
                                 [state |-> IF o.known THEN "Solved" ELSE "Unspecified", val |-> o.values],
                                 s, c) :
              o \in SolverOutcomes(lp)}

CsvMainEnds(file, s, dm, c) ==
    IF file = "absent"
    THEN {End(NoModel, NoX, FALSE, NoReport, Caught("read_csv_data", "FileNotFoundError"))}
    ELSE CsvOptimizeEnds(s, dm, c)

csv_main ==
    /\ prog = "csv_optimizer" /\ pc = "main"
    /\ \E e \in CsvMainEnds(csvFile, supply, demand, costs) :
        /\ model' = e.model
        /\ x' = e.x
        /\ solverInvoked' = e.solverInvoked
        /\ report' = e.report
        /\ ret' = e.ret
    /\ pc' = "done"
    /\ balance' = IF csvFile = "absent"
                  THEN NoBalance
                  ELSE CsvBalance(SumValues(supply, Warehouses), SumValues(demand, Destinations))
    /\ UNCHANGED <<disk, excel, parse, objects, solves, matrix, work, prog, csvFile, supply, demand, costs, nchanges, solution, validation>>

(***************************************************************************)
(* optimization.py: top-level code, no handler: an exception ends the run. *)
(* The script is one action, for the same reason.                          *)
(***************************************************************************)
\* the reports the script's result section can produce for status st: the
\* status is printed and not branched on; the variables are read next
ScriptDisplays(st, xs, s, c) ==
    IF xs.state = "Solved"
    THEN {ReportFromValues(st, xs.val, s, c)}
    ELSE {ReportFromUnspecified(st, s),
          \* a value that is None fails the comparison "quantity > 0"
          [NoReport EXCEPT !.made = TRUE, !.status = st, !.valuesRead = TRUE,
                           !.specified = FALSE, !.exc = "TypeError"]}

\* comparison with the manual methods: gap / optimal * 100 raises
\* ZeroDivisionError when the objective value is 0
CompareRaises(lp, xs) == xs.state = "Solved" /\ ObjectiveValue(lp, xs.val) = 0

\* manual_results: the costs of the manual methods, and the objective value
NorthwestCornerCost == 4600
LeastCostCost == 4050
VamCost == 3970

ManualResults(opt) ==
    [m \in {"Northwest Corner", "Least Cost", "VAM", "Optimal (Software)"} |->
        CASE m = "Northwest Corner" -> NorthwestCornerCost
          [] m = "Least Cost" -> LeastCostCost
          [] m = "VAM" -> VamCost
          [] OTHER -> opt]

\* gap / optimal * 100 as an exact fraction
GapPct(gap, opt) == [num |-> gap * 100, den |-> opt]

\* the rows of the comparison loop: gap and gap_pct per method
ComparisonRows(opt) ==
    [m \in DOMAIN ManualResults(opt) |->
        [cost |-> ManualResults(opt)[m],
         gap |-> ManualResults(opt)[m] - ManualResults(opt)["Optimal (Software)"],
         gap_pct |-> GapPct(ManualResults(opt)[m] - ManualResults(opt)["Optimal (Software)"],
                            ManualResults(opt)["Optimal (Software)"])]]

\* what the comparison can do: the first division raises when the objective
\* value is 0; on the values of a non-optimal solve the objective value is
\* not specified, so both can happen and the figures are not modelled
CompareOutcomes(lp, xs) ==
    IF xs.state = "Solved"
    THEN {IF CompareRaises(lp, xs)
          THEN [raises |-> TRUE, rows |-> EmptyFn]
          ELSE [raises |-> FALSE, rows |-> ComparisonRows(ObjectiveValue(lp, xs.val))]}
    ELSE {[raises |-> TRUE, rows |-> EmptyFn], [raises |-> FALSE, rows |-> EmptyFn]}

\* result display, results.json, then the comparison table
ScriptAfterSolve(m, xs, s, c) ==
    UNION {IF rep.exc # ""
           THEN {End(m, xs, TRUE, rep, Raised("display", rep.exc))}
           ELSE {IF cmp.raises
                 THEN End(m, xs, TRUE, rep, Raised("compare", "ZeroDivisionError"))
                 ELSE End(m, xs, TRUE, [rep EXCEPT !.comparison = cmp.rows],
                          Returned("script", "", m.status)) :
                 cmp \in CompareOutcomes(m.lp, xs)} :
           rep \in ScriptDisplays(m.status, xs, s, c)}

ScriptEnds(s, dm, c) ==
    LET lp == BuildLp(Warehouses, Destinations, s, dm, c)
        built == [built |-> TRUE, lp |-> lp, status |-> "Not Solved"]
    IN  UNION {IF o.raised
               THEN {End(built, FreshX, TRUE, NoReport, Raised("prob.solve", "PulpSolverError"))}
               ELSE ScriptAfterSolve([built EXCEPT !.status = o.status],
                                     [state |-> IF o.known THEN "Solved" ELSE "Unspecified", val |-> o.values],
                                     s, c) :
               o \in SolverOutcomes(lp)}

optimization_script ==
    /\ prog = "optimization" /\ pc = "main"
    /\ \E e \in ScriptEnds(supply, demand, costs) :
        /\ model' = e.model
        /\ x' = e.x
        /\ solverInvoked' = e.solverInvoked
        /\ report' = e.report
        /\ ret' = e.ret
        /\ pc' = IF e.ret.raised THEN "crashed" ELSE "done"
    /\ balance' = ScriptBalance(SumValues(supply, Warehouses), SumValues(demand, Destinations))
    /\ UNCHANGED <<disk, excel, parse, objects, solves, matrix, work, prog, csvFile, supply, demand, costs, nchanges, solution, validation>>

(***************************************************************************)
(* Specification.                                                          *)
(***************************************************************************)
Next ==
    \/ \E w \in W, v \in QtyVals : set_supply(w, v)
    \/ \E d \in D, v \in QtyVals : set_demand(d, v)
    \/ \E p \in Pairs, v \in CostVals : set_cost(p, v)
    \/ \E p \in Pairs : del_cost(p)
    \/ validate_data
    \/ print_problem_summary
    \/ get_cost_matrix
    \/ build_model
    \/ solve
    \/ display_results
    \/ csv_main
    \/ optimization_script

Spec == Init /\ [][Next]_vars

(***************************************************************************)
(* Vocabulary of the properties.                                           *)
(***************************************************************************)
\* sum(supply.values()), sum(demand.values())
TotalSupply == SumValues(supply, Warehouses)
TotalDemand == SumValues(demand, Destinations)

HasData == csvFile # "absent"
CostsComplete == \A p \in Pairs : p \in DOMAIN costs

\* the problem held now is the formulation of the data held now
FormulatedNow ==
    /\ model.built
    /\ CostsComplete
    /\ model.lp = BuildLp(Warehouses, Destinations, supply, demand, costs)

\* ... and the solver has reported a status for it
StatusReportedNow == FormulatedNow /\ model.status # "Not Solved"

\* ... and that status is Optimal
OptimalNow == StatusReportedNow /\ model.status = "Optimal" /\ x.state = "Solved"

\* the report on screen was computed from the data and values held now
ReportIsOfNow ==
    /\ report.made
    /\ report.specified
    /\ prog = "python_solver" => ret.op = "display_results"

\* quantity received by d over the kept routes of a sparse solution
RouteColTotal(d, routes) ==
    SumSeq([i \in 1..Len(Warehouses) |->
              IF <<Warehouses[i], d>> \in DOMAIN routes THEN routes[<<Warehouses[i], d>>] ELSE 0])

InZeroToHundred(pct) == pct.den > 0 /\ 0 <= pct.num /\ pct.num <= 100 * pct.den

(***************************************************************************)
(* Demand and supply constraints of an optimal solution.                   *)
(***************************************************************************)
\* C1: in every optimal solution each destination receives exactly its
\* demand: the sum over the warehouses of the quantities shipped to it equals
\* demand[j] -- in the variables' values, in the kept routes of self.solution
\* and in the per-destination totals the report shows.
C1_DemandMetExactly ==
    OptimalNow =>
        \A d \in D :
            /\ ColTotal(d, Warehouses, x.val) = demand[d]
            /\ (prog = "python_solver") => (~solution.isNone /\ RouteColTotal(d, solution.routes) = demand[d])
            /\ ReportIsOfNow => report.fulfil[d] = demand[d]

\* an optimal solution of an instance with positive demands has been reported,
\* some destination being served by a kept route
C1_Witness ==
    /\ OptimalNow
    /\ ReportIsOfNow
    /\ \A d \in D : demand[d] > 0 /\ report.fulfil[d] = demand[d]
    /\ \E p \in DOMAIN report.shipments : report.shipments[p].quantity > 0

\* C2: in every optimal solution no warehouse ships more than its capacity
\* (sum over the destinations of quantity[i, j] <= capacity[i]), and every
\* utilization percentage reported, used / capacity * 100, is in [0, 100].
C2_WithinCapacity ==
    OptimalNow =>
        /\ \A w \in W : RowTotal(w, Destinations, x.val) <= supply[w]
        /\ ReportIsOfNow =>
              \A w \in DOMAIN report.util :
                  /\ report.util[w].used = RowTotal(w, Destinations, x.val)
                  /\ report.util[w].used <= report.util[w].capacity
                  /\ InZeroToHundred(report.util[w].pct)

\* a report of an optimal solution with one warehouse fully used and another
\* partly used
C2_Witness ==
    /\ OptimalNow
    /\ ReportIsOfNow
    /\ \E w \in DOMAIN report.util : report.util[w].pct.num = 100 * report.util[w].pct.den
    /\ \E w \in DOMAIN report.util :
          /\ 0 < report.util[w].pct.num
          /\ report.util[w].pct.num < 100 * report.util[w].pct.den

(***************************************************************************)
(* Status against the balance of the totals.                               *)
(***************************************************************************)
\* C3: for every instance (a cost for every pair) whose total demand exceeds
\* its total supply, building the formulation raises no error and the status
\* the solve reports is Infeasible, never Optimal.
C3_ShortageIsInfeasible ==
    (HasData /\ CostsComplete /\ TotalDemand > TotalSupply) =>
        /\ ret.exc # "KeyError"
        /\ ret.op = "build_model" => (~ret.raised /\ model.built)
        /\ StatusReportedNow => (model.status = "Infeasible" /\ x.state # "Solved")
        /\ (ret.op = "solve" /\ FormulatedNow /\ ~ret.raised) => (ret.value = "False" /\ ret.status = "Infeasible")

\* a solve of a demand-shortage instance has reported its status
C3_Witness ==
    /\ HasData /\ CostsComplete /\ TotalDemand > TotalSupply
    /\ StatusReportedNow
    /\ model.status = "Infeasible"
    /\ \A w \in W : supply[w] >= 0

\* an instance of the data model: non-negative capacities and requirements
NonNegativeQuantities == (\A w \in W : supply[w] >= 0) /\ (\A d \in D : demand[d] >= 0)
NonNegativeCosts == CostsComplete /\ \A p \in Pairs : costs[p] >= 0

\* C4: for every instance whose total supply is at least its total demand
\* and whose costs are all defined and non-negative, the formulation is
\* feasible and the solve reports Optimal.
C4_SurplusIsOptimal ==
    (HasData /\ NonNegativeQuantities /\ NonNegativeCosts /\ TotalSupply >= TotalDemand) =>
        /\ FormulatedNow => Feasible(model.lp) # {}
        /\ StatusReportedNow => OptimalNow
        /\ (ret.op = "solve" /\ FormulatedNow /\ ~ret.raised) => (ret.value = "True" /\ ret.status = "Optimal")

\* a supply-surplus instance with positive demand has been solved
C4_Witness ==
    /\ HasData /\ NonNegativeQuantities /\ NonNegativeCosts
    /\ TotalSupply > TotalDemand
    /\ TotalDemand > 0
    /\ OptimalNow

(***************************************************************************)
(* Validation.                                                             *)
(***************************************************************************)
\* the four kinds of violation, over the data held now
ZeroOrLessSupplies == {w \in W : supply[w] <= 0}
ZeroOrLessDemands == {d \in D : demand[d] <= 0}
NegativeCostPairs == {p \in Pairs \cap DOMAIN costs : costs[p] < 0}
MissingCostPairs == Pairs \ DOMAIN costs

Violations ==
    Cardinality(ZeroOrLessSupplies) + Cardinality(ZeroOrLessDemands)
        + Cardinality(NegativeCostPairs) + Cardinality(MissingCostPairs)

ValidatedNow == ret.op = "validate_data" /\ validation.done

HasError(msg, key) == \E k \in 1..Len(validation.errors) : validation.errors[k] = [msg |-> msg, key |-> key]

\* C5: validate_data reports the data invalid exactly when some capacity is
\* <= 0, or some demand is <= 0, or some cost is negative, or some
\* warehouse-destination pair has no cost entry.
C5_InvalidIffViolation ==
    ValidatedNow =>
        (~validation.is_valid <=>
            \/ \E w \in W : supply[w] <= 0
            \/ \E d \in D : demand[d] <= 0
            \/ \E p \in DOMAIN costs : costs[p] < 0
            \/ \E p \in Pairs : p \notin DOMAIN costs)

\* validate_data has rejected data whose only fault is a capacity of 0
C5_Witness ==
    /\ ValidatedNow
    /\ ~validation.is_valid
    /\ \E w \in W : supply[w] = 0
    /\ Violations = 1

\* C6: validate_data does not stop at the first violation: the list it
\* returns has one entry for every violating capacity, demand, negative cost
\* and missing pair, so its length is the number of violations in the data.
C6_OneErrorPerViolation ==
    ValidatedNow =>
        /\ Len(validation.errors) = Violations
        /\ \A w \in ZeroOrLessSupplies : HasError("Supply must be positive", <<w>>)
        /\ \A d \in ZeroOrLessDemands : HasError("Demand must be positive", <<d>>)
        /\ \A p \in NegativeCostPairs : HasError("Cost cannot be negative", p)
        /\ \A p \in MissingCostPairs : HasError("Cost not defined for route", p)

\* validate_data has returned two errors of different kinds for data with two
\* violations
C6_Witness ==
    /\ ValidatedNow
    /\ Violations = 2
    /\ Len(validation.errors) = 2
    /\ validation.errors[1].msg # validation.errors[2].msg

\* data some check of validate_data rejects
InvalidData == HasData /\ Violations > 0

\* the last step handed the formulation of the data held now to the solver
SolverRanOnDataOfNow ==
    /\ solverInvoked
    /\ \/ prog \in {"csv_optimizer", "optimization"} /\ pc # "main"
       \/ prog = "python_solver" /\ ret.op = "solve" /\ FormulatedNow

\* C7: a validation failure stops the pipeline before any solver invocation:
\* the solver is never called on data that validation rejects.
C7_InvalidDataNeverSolved == InvalidData => ~SolverRanOnDataOfNow

(***************************************************************************)
(* Non-optimal and failed solves.                                          *)
(***************************************************************************)
\* C8: whenever the most recent solve returned a non-optimal status,
\* self.solution holds no route quantities of an earlier solve.
C8_NoStaleSolution ==
    (prog = "python_solver" /\ ret.op = "solve" /\ ~ret.raised /\ ret.value = "False")
        => NoSolutionToShow(solution)

\* C9: when the status is not Optimal, neither the script optimization.py
\* nor display_results of csv_optimizer.py reads the variables' quantities.
C9_NoReadOfNonOptimalValues ==
    (/\ prog \in {"csv_optimizer", "optimization"}
     /\ pc # "main"
     /\ model.built
     /\ model.status \notin {"Optimal", "Not Solved"})
        => ~report.valuesRead

\* C10: when the solver is unavailable or raises, the failure is surfaced
\* with its message (a propagating exception counts as surfaced here) and no
\* partial or earlier solution is left readable as the result of that solve.
C10_FailedSolveLeavesNoSolution ==
    (ret.exc = "PulpSolverError") =>
        /\ ret.raised \/ ret.status = "Error"
        /\ NoSolutionToShow(solution)

(***************************************************************************)
(* The extracted solution.                                                 *)
(***************************************************************************)
\* the pairs whose solved quantity is positive
PositivePairs == {p \in Pairs : x.val[p] > 0}

\* C11: on an optimal solve the extracted solution holds exactly the pairs
\* whose solved quantity is > 0: each is present with its quantity, no pair
\* of quantity 0 is present, and every stored quantity is non-negative --
\* for self.solution of TransportationOptimizer and for the shipment list of
\* the CSV optimizer and of the script.
C11_SparseSolution ==
    OptimalNow =>
        /\ (prog = "python_solver") =>
              /\ ~solution.isNone
              /\ DOMAIN solution.routes = PositivePairs
              /\ \A p \in DOMAIN solution.routes :
                    solution.routes[p] = x.val[p] /\ solution.routes[p] >= 0
        /\ (prog \in {"csv_optimizer", "optimization"} /\ ReportIsOfNow) =>
              /\ DOMAIN report.shipments = PositivePairs
              /\ \A p \in DOMAIN report.shipments :
                    report.shipments[p].quantity = x.val[p] /\ report.shipments[p].quantity >= 0

\* an optimal solve has left a solution with a kept route and an unused pair
C11_Witness ==
    /\ prog = "python_solver"
    /\ OptimalNow
    /\ ret.op = "solve"
    /\ \E p \in Pairs : p \in DOMAIN solution.routes /\ solution.routes[p] > 0
    /\ \E p \in Pairs : p \notin DOMAIN solution.routes /\ x.val[p] = 0

\* sum of the line costs of a shipment list, over the set of its lines
RECURSIVE SumOfLineCosts(_, _)
SumOfLineCosts(lines, ps) ==
    IF ps = {}
    THEN 0
    ELSE LET p == CHOOSE q \in ps : TRUE
         IN  lines[p].total_cost + SumOfLineCosts(lines, ps \ {p})

\* C12: for an optimal solve, the total cost recomputed from the extracted
\* routes -- each line cost being quantity * unit cost, the total their sum --
\* equals the objective value the solver reports.
C12_TotalCostIsObjective ==
    (OptimalNow /\ ReportIsOfNow) =>
        /\ \A p \in DOMAIN report.shipments :
              report.shipments[p].total_cost = report.shipments[p].quantity * report.shipments[p].unit_cost
        /\ report.total_cost = SumOfLineCosts(report.shipments, DOMAIN report.shipments)
        /\ report.total_cost = ObjectiveValue(model.lp, x.val)

\* an optimal solution of two or more routes, one of them at a unit cost other
\* than 1, has been reported with its total
C12_Witness ==
    /\ OptimalNow
    /\ ReportIsOfNow
    /\ Cardinality(DOMAIN report.shipments) >= 2
    /\ \E p \in DOMAIN report.shipments : report.shipments[p].unit_cost \notin {0, 1}
    /\ report.total_cost = ObjectiveValue(model.lp, x.val)

(***************************************************************************)
(* The decision variables.                                                 *)
(***************************************************************************)
\* C13: the formulation has exactly one decision variable for each
\* (warehouse, destination) pair of the instance and no others -- no dummy
\* warehouse or destination, also when the instance is unbalanced -- and each
\* variable has lower bound 0 and no upper bound of its own.
C13_OneVariablePerPair ==
    model.built =>
        LET names == model.lp.vars.names
        IN  /\ Range(names) = W \X D
            /\ \A h, k \in 1..Len(names) : names[h] = names[k] => h = k
            /\ Len(names) = Len(Warehouses) * Len(Destinations)
            /\ model.lp.vars.lowBound = 0
            /\ model.lp.vars.upBound = <<>>
            /\ \A k \in 1..Len(model.lp.constraints) :
                  Range(model.lp.constraints[k].terms) \subseteq Range(names)
            /\ \A k \in 1..Len(model.lp.objective) : model.lp.objective[k].var \in Range(names)

\* a formulation of a demand-shortage instance has been built
C13_Witness ==
    /\ model.built
    /\ FormulatedNow
    /\ TotalSupply < TotalDemand
    /\ Range(model.lp.vars.names) = Pairs

(***************************************************************************)
(* The two literal instances at their real size.                           *)
(*                                                                         *)
(* Enumerating every allocation of a 3 x 4 or 4 x 5 instance with          *)
(* quantities in the hundreds is out of reach, so for the literal data the *)
(* solver is modelled by what a simplex-type LP engine ranges over: the    *)
(* basic feasible solutions of the formulation.  Each of them is built by  *)
(* choosing a route with capacity and demand left and shipping as much as  *)
(* both allow (or by leaving capacity unused, up to the surplus -- the     *)
(* slack of a supply row), until nothing is left; every vertex of the      *)
(* feasible region is reached by some order of choices.  A linear          *)
(* objective attains its minimum over the region at a vertex, so the       *)
(* minimum over the vertices reached is the optimum the solver reports.    *)
(***************************************************************************)
IndexOf(seq, e) == CHOOSE k \in 1..Len(seq) : seq[k] = e

\* a dict given by its key list and its values in the same order
DictOf(keys, values) == [k \in Range(keys) |-> values[IndexOf(keys, k)]]

\* a cost table given row by row
CostTable(ws, ds, rows) ==
    [p \in Range(PairList(ws, ds)) |-> rows[IndexOf(ws, p[1])][IndexOf(ds, p[2])]]

\* optimization.py: supply, demand, costs, warehouses, stores
FreshDrinkWarehouses == <<"G1", "G2", "G3">>
FreshDrinkStores == <<"T1", "T2", "T3", "T4">>
FreshDrinkSupply == DictOf(FreshDrinkWarehouses, <<150, 200, 180>>)
FreshDrinkDemand == DictOf(FreshDrinkStores, <<120, 140, 110, 130>>)
\* variant: the cost table with G3 -> T3 at 1 in place of 16
FreshDrinkCostsCheapRoute ==
    CostTable(FreshDrinkWarehouses, FreshDrinkStores,
              << <<8, 6, 10, 9>>,
                 <<9, 12, 13, 7>>,
                 <<14, 9, 1, 5>> >>)

FreshDrinkCosts ==
    CostTable(FreshDrinkWarehouses, FreshDrinkStores,
              << <<8, 6, 10, 9>>,
                 <<9, 12, 13, 7>>,
                 <<14, 9, 16, 5>> >>)

\* python_solver.py: TransportationOptimizer.__init__
MediCareWarehouses == <<"Jakarta", "Tangerang", "Bekasi", "Bogor">>
MediCareDestinations == <<"RS_Jakarta_Pusat", "RS_Tangerang", "RS_Bekasi", "Apotek_Depok", "RS_Bogor">>
MediCareSupply == DictOf(MediCareWarehouses, <<350, 400, 300, 250>>)
MediCareDemand == DictOf(MediCareDestinations, <<250, 300, 200, 280, 220>>)
MediCareCosts ==
    CostTable(MediCareWarehouses, MediCareDestinations,
              << <<5, 15, 12, 8, 18>>,
                 <<18, 4, 20, 16, 25>>,
                 <<14, 22, 6, 10, 20>>,
                 <<16, 24, 18, 7, 5>> >>)

\* the node lists of the instance a run holds
InstWarehouses == IF prog = "optimization" THEN FreshDrinkWarehouses ELSE MediCareWarehouses
InstDestinations == IF prog = "optimization" THEN FreshDrinkStores ELSE MediCareDestinations

InitInstance(p, ws, ds, s, dm, c) ==
    /\ prog = p
    /\ csvFile = "n/a"
    /\ pc = "solving"
    /\ supply = s
    /\ demand = dm
    /\ costs = c
    /\ nchanges = 0
    /\ model = [built |-> TRUE, lp |-> BuildLp(ws, ds, s, dm, c), status |-> "Not Solved"]
    /\ x = [state |-> "None", val |-> [q \in Range(PairList(ws, ds)) |-> 0]]
    /\ solution = NoneSolution
    /\ ret = NoRet
    /\ solverInvoked = TRUE
    /\ report = NoReport
    /\ validation = NoValidation
    /\ work = [rowLeft |-> s,
               colLeft |-> dm,
               unused |-> [w \in Range(ws) |-> 0],
               surplusLeft |-> SumValues(s, ws) - SumValues(dm, ds)]
    /\ balance = NoBalance
    /\ matrix = NoMatrix
    /\ solves = <<>>
    /\ objects = NoObjects
    /\ parse = NoParse
    /\ excel = NoExcel
    /\ disk = NoDisk

InitFreshDrink ==
    InitInstance("optimization", FreshDrinkWarehouses, FreshDrinkStores,
                 FreshDrinkSupply, FreshDrinkDemand, FreshDrinkCosts)

InitMediCare ==
    InitInstance("python_solver", MediCareWarehouses, MediCareDestinations,
                 MediCareSupply, MediCareDemand, MediCareCosts)

Min(a, b) == IF a <= b THEN a ELSE b

InstanceWarehouses == Range(FreshDrinkWarehouses) \cup Range(MediCareWarehouses)
InstanceDestinations == Range(FreshDrinkStores) \cup Range(MediCareDestinations)

\* the route w -> d enters the solution with all that w and d allow:
\* work.rowLeft is the capacity not yet shipped nor left unused, work.colLeft
\* the demand not yet met
Ship(w, d) ==
    /\ pc = "solving"
    /\ w \in DOMAIN work.rowLeft /\ d \in DOMAIN work.colLeft
    /\ work.rowLeft[w] > 0 /\ work.colLeft[d] > 0
    /\ LET q == Min(work.rowLeft[w], work.colLeft[d])
       IN  /\ x' = [x EXCEPT !.val[<<w, d>>] = @ + q]
           /\ work' = [work EXCEPT !.rowLeft[w] = @ - q, !.colLeft[d] = @ - q]
    /\ UNCHANGED <<disk, excel, parse, objects, solves, matrix, balance, prog, csvFile, pc, supply, demand, costs, nchanges, model, solution,
                   ret, solverInvoked, report, validation>>

\* the slack of the supply row of w enters the solution: capacity left
\* unused, up to the surplus not yet assigned to a warehouse
LeaveUnused(w) ==
    /\ pc = "solving"
    /\ w \in DOMAIN work.rowLeft
    /\ work.rowLeft[w] > 0 /\ work.surplusLeft > 0
    /\ LET q == Min(work.rowLeft[w], work.surplusLeft)
       IN  work' = [work EXCEPT !.rowLeft[w] = @ - q, !.unused[w] = @ + q, !.surplusLeft = @ - q]
    /\ UNCHANGED <<disk, excel, parse, objects, solves, matrix, x, balance, prog, csvFile, pc, supply, demand, costs, nchanges, model, solution,
                   ret, solverInvoked, report, validation>>

\* nothing can enter any more
NothingLeft ==
    /\ \A w \in DOMAIN work.rowLeft, d \in DOMAIN work.colLeft :
          ~(work.rowLeft[w] > 0 /\ work.colLeft[d] > 0)
    /\ \A w \in DOMAIN work.rowLeft : ~(work.rowLeft[w] > 0 /\ work.surplusLeft > 0)

\* the values in x satisfy every row of the formulation
SatisfiesFormulation ==
    /\ \A p \in DOMAIN x.val : x.val[p] >= model.lp.vars.lowBound
    /\ \A k \in 1..Len(model.lp.constraints) : Satisfies(model.lp.constraints[k], x.val)

\* a basic solution is complete: when it satisfies the formulation the LP has
\* a feasible point and, the objective being bounded below, the status is
\* Optimal; when it does not, no feasible point exists
VertexReached ==
    /\ pc = "solving"
    /\ NothingLeft
    /\ pc' = "vertex"
    /\ model' = [model EXCEPT !.status = IF SatisfiesFormulation THEN "Optimal" ELSE "Infeasible"]
    /\ x' = [x EXCEPT !.state = IF SatisfiesFormulation THEN "Solved" ELSE "Unspecified"]
    /\ UNCHANGED <<disk, excel, parse, objects, solves, matrix, work, balance, prog, csvFile, supply, demand, costs, nchanges, solution,
                   ret, solverInvoked, report, validation>>

NextInstance ==
    \/ \E w \in InstanceWarehouses, d \in InstanceDestinations : Ship(w, d)
    \/ \E w \in InstanceWarehouses : LeaveUnused(w)
    \/ VertexReached

SpecFreshDrink == InitFreshDrink /\ [][NextInstance]_vars
SpecMediCare == InitMediCare /\ [][NextInstance]_vars

(***************************************************************************)
(* The literal instance of optimization.py.                                *)
(***************************************************************************)
\* a complete basic solution that satisfies the formulation
AtFeasibleVertex == pc = "vertex" /\ model.status = "Optimal" /\ x.state = "Solved"

IsFreshDrinkInstance ==
    /\ supply = [G1 |-> 150, G2 |-> 200, G3 |-> 180]
    /\ demand = [T1 |-> 120, T2 |-> 140, T3 |-> 110, T4 |-> 130]
    /\ costs = FreshDrinkCosts
    /\ model.lp = BuildLp(FreshDrinkWarehouses, FreshDrinkStores, supply, demand, costs)

\* C14: for the instance with capacities G1=150, G2=200, G3=180, demands
\* T1=120, T2=140, T3=110, T4=130 and the hard-coded cost matrix, the minimum
\* total cost over the feasible allocations is exactly 3970 (no vertex of the
\* feasible region costs less; the witness is one that costs 3970), and each
\* hard-coded baseline cost is >= 3970.
C14_MinimumIs3970 ==
    /\ IsFreshDrinkInstance
    /\ AtFeasibleVertex => ObjectiveValue(model.lp, x.val) >= 3970
    /\ NorthwestCornerCost >= 3970
    /\ LeastCostCost >= 3970
    /\ VamCost >= 3970

\* a feasible allocation of the instance that costs exactly 3970
C14_Witness ==
    /\ IsFreshDrinkInstance
    /\ AtFeasibleVertex
    /\ ObjectiveValue(model.lp, x.val) = 3970
    /\ \A d \in DOMAIN demand : ColTotal(d, FreshDrinkWarehouses, x.val) = demand[d]
    /\ \A w \in DOMAIN supply : RowTotal(w, FreshDrinkStores, x.val) <= supply[w]

(***************************************************************************)
(* The literal instance of python_solver.py.                               *)
(***************************************************************************)
IsMediCareInstance ==
    /\ supply = [Jakarta |-> 350, Tangerang |-> 400, Bekasi |-> 300, Bogor |-> 250]
    /\ demand = [RS_Jakarta_Pusat |-> 250, RS_Tangerang |-> 300, RS_Bekasi |-> 200,
                 Apotek_Depok |-> 280, RS_Bogor |-> 220]
    /\ SumValues(supply, MediCareWarehouses) = 1300
    /\ SumValues(demand, MediCareDestinations) = 1250
    /\ costs = MediCareCosts
    /\ pc = "vertex" =>
          model.lp = BuildLp(MediCareWarehouses, MediCareDestinations, supply, demand, costs)

\* the unused figures of the utilization rows, added up
TotalUnused(ws, ds, s, val) == SumSeq([k \in 1..Len(ws) |-> UtilRow(ws[k], ds, s, val).unused])

\* C15: for the hard-coded MediCare instance (supplies 350, 400, 300, 250,
\* in total 1300; demands 250, 300, 200, 280, 220, in total 1250) the solve
\* reports Optimal -- every basic solution the solver completes satisfies the
\* formulation -- every destination receives exactly its demand, and exactly
\* 50 units of capacity remain unused in total.
C15_MediCareOptimal ==
    /\ IsMediCareInstance
    /\ pc = "vertex" => AtFeasibleVertex
    /\ AtFeasibleVertex =>
          /\ \A d \in Range(MediCareDestinations) : ColTotal(d, MediCareWarehouses, x.val) = demand[d]
          /\ \A w \in Range(MediCareWarehouses) :
                UtilRow(w, MediCareDestinations, supply, x.val).unused >= 0
          /\ TotalUnused(MediCareWarehouses, MediCareDestinations, supply, x.val) = 50

\* a solution of the instance that leaves the 50 units at two warehouses
C15_Witness ==
    /\ IsMediCareInstance
    /\ AtFeasibleVertex
    /\ TotalUnused(MediCareWarehouses, MediCareDestinations, supply, x.val) = 50
    /\ \E w \in Range(MediCareWarehouses) :
          /\ UtilRow(w, MediCareDestinations, supply, x.val).unused > 0
          /\ UtilRow(w, MediCareDestinations, supply, x.val).unused < 50

(***************************************************************************)
(* Balance classification.                                                 *)
(***************************************************************************)
\* a balance line has been printed for the data held now
BalancePrintedNow ==
    \/ prog = "csv_optimizer" /\ pc = "done" /\ HasData
    \/ prog = "optimization" /\ pc \in {"done", "crashed"}
    \/ prog = "model_formulation" /\ ret.op = "print_problem_summary"

\* C16: the balance classification is a total function of total supply
\* minus total demand: 0 gives BALANCED, a positive difference SURPLUS of
\* that amount, a negative one SHORTAGE of its absolute value; exactly one of
\* the three is reported for every instance, and TransportationData, the CSV
\* optimizer's main and the optimization script agree.
C16_BalanceClassification ==
    HasData =>
        LET ts == TotalSupply
            td == TotalDemand
            diff == ts - td
        IN  /\ BalancePrintedNow =>
                  /\ balance.kind \in {"BALANCED", "SURPLUS", "SHORTAGE"}
                  /\ (diff = 0) => (balance.kind = "BALANCED")
                  /\ (diff > 0) => (balance.kind = "SURPLUS" /\ balance.amount = diff)
                  /\ (diff < 0) => (balance.kind = "SHORTAGE" /\ balance.amount = 0 - diff)
            /\ SummaryBalance(ts, td) = CsvBalance(ts, td)
            /\ CsvBalance(ts, td) = ScriptBalance(ts, td)

\* print_problem_summary has reported a shortage
C16_Witness ==
    /\ prog = "model_formulation"
    /\ ret.op = "print_problem_summary"
    /\ TotalSupply < TotalDemand
    /\ balance = [kind |-> "SHORTAGE", amount |-> TotalDemand - TotalSupply]

(***************************************************************************)
(* Comparison with the manual methods.                                     *)
(***************************************************************************)
\* the script has solved valid data to optimality and gone on to the
\* comparison
ComparedAfterOptimal ==
    /\ prog = "optimization"
    /\ pc \in {"done", "crashed"}
    /\ ~InvalidData
    /\ OptimalNow
    /\ report.made /\ report.exc = ""

\* C17: for each baseline method the comparison computes gap = baseline cost
\* - optimal cost and gap_pct = gap / optimal cost * 100; the computation is
\* defined for every optimal cost the solve can produce; and no baseline is
\* reported with a negative gap.
C17_GapDefinedAndNonNegative ==
    ComparedAfterOptimal =>
        /\ ret.exc # "ZeroDivisionError"
        /\ DOMAIN report.comparison = {"Northwest Corner", "Least Cost", "VAM", "Optimal (Software)"}
        /\ \A m \in DOMAIN report.comparison :
              LET row == report.comparison[m]
                  opt == ObjectiveValue(model.lp, x.val)
              IN  /\ row.gap = row.cost - opt
                  /\ row.gap_pct = [num |-> row.gap * 100, den |-> opt]
                  /\ row.gap_pct.den # 0
                  /\ row.gap >= 0

(***************************************************************************)
(* Missing cost entries.                                                   *)
(***************************************************************************)
\* C18: every missing (warehouse, destination) cost entry is treated as a
\* validation error and never as an implicit infinite cost: no operation of
\* the data model puts infinity (or any default) in the place of a missing
\* cost.
C18_MissingCostNeverDefaulted ==
    \A p \in DOMAIN matrix : matrix[p].finite

(***************************************************************************)
(* Warehouse utilization.                                                  *)
(***************************************************************************)
\* the utilization table was computed for an optimal solve of the data held
\* now
UtilizationComputedNow == OptimalNow /\ ReportIsOfNow

\* C19: the utilization computation (used, unused = capacity - used,
\* percentage = used / capacity * 100, so used + unused = capacity) never
\* divides by zero: a warehouse with capacity 0 is rejected before the
\* utilization is computed, on every path that computes it.
C19_UtilizationNeverDividesByZero ==
    UtilizationComputedNow =>
        /\ report.exc # "ZeroDivisionError"
        /\ \A w \in W : supply[w] # 0
        /\ \A w \in DOMAIN report.util :
              /\ report.util[w].used + report.util[w].unused = report.util[w].capacity
              /\ report.util[w].pct.den # 0

(***************************************************************************)
(* Solving the same formulation again: a TransportationOptimizer whose     *)
(* attributes hold one instance, built and solved any number of times,     *)
(* with what each solve printed kept in solves.  The instances are those of *)
(* the data model: capacities, requirements and unit costs from 0 up.      *)
(***************************************************************************)
InstanceQtys == 0..MaxQty
InstanceCosts == 0..MaxCost

InitTwice ==
    /\ prog = "python_solver"
    /\ pc = "api"
    /\ csvFile = "n/a"
    /\ supply \in [W -> InstanceQtys]
    /\ demand \in [D -> InstanceQtys]
    /\ costs \in [Pairs -> InstanceCosts]
    /\ nchanges = 0
    /\ model = NoModel
    /\ x = NoX
    /\ solution = NoneSolution
    /\ ret = NoRet
    /\ solverInvoked = FALSE
    /\ report = NoReport
    /\ validation = NoValidation
    /\ work = NoWork
    /\ balance = NoBalance
    /\ matrix = NoMatrix
    /\ solves = <<>>
    /\ objects = NoObjects
    /\ parse = NoParse
    /\ excel = NoExcel
    /\ disk = NoDisk

NextTwice ==
    \/ build_model
    \/ solve_logged

SpecTwice == InitTwice /\ [][NextTwice]_vars

\* the last two solves that returned were of the same formulation
SolvedTwice == Len(solves) = 2 /\ solves[1].lp = solves[2].lp

InitReport ==
    /\ prog = "python_solver"
    /\ pc = "api"
    /\ csvFile = "n/a"
    /\ supply = DefaultSupply
    /\ demand \in [D -> InstanceQtys]
    /\ costs = DefaultCosts
    /\ nchanges = 0
    /\ model = NoModel
    /\ x = NoX
    /\ solution = NoneSolution
    /\ ret = NoRet
    /\ solverInvoked = FALSE
    /\ report = NoReport
    /\ validation = NoValidation
    /\ work = NoWork
    /\ balance = NoBalance
    /\ matrix = NoMatrix
    /\ solves = <<>>
    /\ objects = NoObjects
    /\ parse = NoParse
    /\ excel = NoExcel
    /\ disk = NoDisk

NextReport ==
    \/ \E w \in W, v \in InstanceQtys : set_supply(w, v)
    \/ build_model
    \/ solve
    \/ display_results
    \/ visualize_solution
    \/ export_to_excel

SpecReport == InitReport /\ [][NextReport]_vars

ReportingOps == {"display_results", "visualize_solution", "export_to_excel"}

\* C21: once a solve has produced a solution, display_results,
\* visualize_solution and export_to_excel leave self.solution and the problem
\* data (supply, demand, costs) unchanged, in any order and any number of
\* calls.
C21_ReportsLeaveSolutionAndData ==
    [][(ret'.op \in ReportingOps /\ ~solution.isNone) =>
           /\ solution' = solution
           /\ supply' = supply
           /\ demand' = demand
           /\ costs' = costs]_vars

\* export_to_excel has written its workbook from the solution of an optimal
\* solve
C21_Witness ==
    /\ ret.op = "export_to_excel"
    /\ report.made /\ report.saved
    /\ ~NoSolutionToShow(solution)
    /\ model.status = "Optimal"

(***************************************************************************)
(* Two TransportationOptimizer objects in one process.  An attribute that  *)
(* holds a dict holds a reference; heap maps each reference to the dict.   *)
(* Methods are called on either object in any order.                       *)
(***************************************************************************)
ObjectNames == {"first", "second"}
DictAttrs == {"supply", "demand", "costs"}

\* variant: the dicts are class attributes, one per class
NewDictOfClass(k, attr) == <<"TransportationOptimizer", attr>>

\* self.supply = {...}: the dict display in __init__ makes a new dict each
\* time __init__ runs
NewDict(k, attr) == <<k, attr>>

\* __init__: the three dicts, self.model = None, self.solution = None
Construct(k) ==
    [supply |-> NewDict(k, "supply"),
     demand |-> NewDict(k, "demand"),
     costs |-> NewDict(k, "costs"),
     model |-> NoModel,
     x |-> NoX,
     solution |-> NoneSolution]

LiteralDict(attr) ==
    CASE attr = "supply" -> DefaultSupply
      [] attr = "demand" -> DefaultDemand
      [] OTHER -> DefaultCosts

TwoOptimizers ==
    [heap |-> [a \in {NewDict(k, attr) : k \in ObjectNames, attr \in DictAttrs} |->
                  LiteralDict(a[2])],
     obj |-> [k \in ObjectNames |-> Construct(k)],
     edits |-> 0,
     last |-> [who |-> "", op |-> "", raised |-> FALSE]]

\* what object k holds, its dicts read through their references
ObjectView(os, k) ==
    [supply |-> os.heap[os.obj[k].supply],
     demand |-> os.heap[os.obj[k].demand],
     costs |-> os.heap[os.obj[k].costs],
     model |-> os.obj[k].model,
     x |-> os.obj[k].x,
     solution |-> os.obj[k].solution]

OnlyObjects ==
    UNCHANGED <<prog, csvFile, pc, supply, demand, costs, nchanges, model, x, solution, ret,
                solverInvoked, report, validation, work, balance, matrix, solves, parse, excel, disk>>

\* k.supply[w] = v
set_supply_of(k, w, v) ==
    /\ objects # NoObjects
    /\ objects.edits < MaxChanges
    /\ v # ObjectView(objects, k).supply[w]
    /\ objects' = [objects EXCEPT !.heap[objects.obj[k].supply][w] = v,
                                  !.edits = @ + 1,
                                  !.last = [who |-> k, op |-> "setattr", raised |-> FALSE]]
    /\ OnlyObjects

\* k.build_model()
build_model_of(k) ==
    /\ objects # NoObjects
    /\ LET me == ObjectView(objects, k)
       IN  objects' = [objects EXCEPT
               !.obj[k].model = [built |-> TRUE,
                                 lp |-> BuildLp(Warehouses, Destinations,
                                                me.supply, me.demand, me.costs),
                                 status |-> "Not Solved"],
               !.obj[k].x = FreshX,
               !.last = [who |-> k, op |-> "build_model", raised |-> FALSE]]
    /\ OnlyObjects

\* k.solve()
solve_of(k) ==
    /\ objects # NoObjects
    /\ LET me == ObjectView(objects, k)
       IN  IF ~me.model.built
           THEN objects' = [objects EXCEPT !.last = [who |-> k, op |-> "solve", raised |-> TRUE]]
           ELSE \E o \in SolverOutcomes(me.model.lp) :
                IF o.raised
                THEN objects' = [objects EXCEPT
                         !.last = [who |-> k, op |-> "solve", raised |-> TRUE]]
                ELSE objects' = [objects EXCEPT
                         !.obj[k].model.status = o.status,
                         !.obj[k].x = [state |-> IF o.known THEN "Solved" ELSE "Unspecified",
                                       val |-> o.values],
                         !.obj[k].solution = SolutionAfterSolve(o.status, o.values, me.solution),
                         !.last = [who |-> k, op |-> "solve", raised |-> FALSE]]
    /\ OnlyObjects

InitPair ==
    /\ prog = "python_solver"
    /\ pc = "api"
    /\ csvFile = "n/a"
    /\ supply = DefaultSupply
    /\ demand = DefaultDemand
    /\ costs = DefaultCosts
    /\ nchanges = 0
    /\ model = NoModel
    /\ x = NoX
    /\ solution = NoneSolution
    /\ ret = NoRet
    /\ solverInvoked = FALSE
    /\ report = NoReport
    /\ validation = NoValidation
    /\ work = NoWork
    /\ balance = NoBalance
    /\ matrix = NoMatrix
    /\ solves = <<>>
    /\ objects = TwoOptimizers
    /\ parse = NoParse
    /\ excel = NoExcel
    /\ disk = NoDisk

NextPair ==
    \/ \E k \in ObjectNames, w \in W, v \in InstanceQtys : set_supply_of(k, w, v)
    \/ \E k \in ObjectNames : build_model_of(k)
    \/ \E k \in ObjectNames : solve_of(k)

SpecPair == InitPair /\ [][NextPair]_vars

\* C22: no mutable state is shared between two TransportationOptimizer
\* objects: a data change, build_model or solve on one leaves the other's
\* supply, demand, costs, model and solution unchanged, and what a solve
\* leaves in an object is an outcome of solving that object's own
\* formulation.
C22_NoSharedState ==
    [][\A k \in ObjectNames :
          objects'.last.who = k =>
              /\ \A j \in ObjectNames \ {k} :
                    ObjectView(objects', j) = ObjectView(objects, j)
              /\ (objects'.last.op = "solve" /\ ~objects'.last.raised) =>
                    \E o \in SolverOutcomes(ObjectView(objects, k).model.lp) :
                        /\ ~o.raised
                        /\ ObjectView(objects', k).model.status = o.status
                        /\ ObjectView(objects', k).x.val = o.values]_vars

\* the two objects hold different capacities and different solutions, both
\* from optimal solves
C22_Witness ==
    /\ objects # NoObjects
    /\ ObjectView(objects, "first").supply # ObjectView(objects, "second").supply
    /\ ObjectView(objects, "first").model.status = "Optimal"
    /\ ObjectView(objects, "second").model.status = "Optimal"
    /\ ObjectView(objects, "first").solution # ObjectView(objects, "second").solution

(***************************************************************************)
(* csv_optimizer.py: read_csv_data, followed line by line.  A line is the  *)
(* sequence of its characters, so that strip, startswith, split and int    *)
(* are computed as Python computes them.                                   *)
(***************************************************************************)
MaxLines == 4

Whitespace == {" ", "\t", "\n", "\r"}

RECURSIVE LStrip(_)
LStrip(s) == IF s # <<>> /\ Head(s) \in Whitespace THEN LStrip(Tail(s)) ELSE s

RECURSIVE RStrip(_)
RStrip(s) ==
    IF s # <<>> /\ s[Len(s)] \in Whitespace THEN RStrip(SubSeq(s, 1, Len(s) - 1)) ELSE s

\* str.strip()
Strip(s) == RStrip(LStrip(s))

\* line.startswith('#')
StartsWithHash(s) == s # <<>> /\ s[1] = "#"

\* line.split(','): the parts between the commas, empty parts included
RECURSIVE Split(_)
Split(s) ==
    IF \E i \in 1..Len(s) : s[i] = ","
    THEN LET i == CHOOSE i \in 1..Len(s) : s[i] = "," /\ \A h \in 1..(i - 1) : s[h] # ","
         IN  <<SubSeq(s, 1, i - 1)>> \o Split(SubSeq(s, i + 1, Len(s)))
    ELSE <<s>>

Digits == <<"0", "1", "2", "3", "4", "5", "6", "7", "8", "9">>
DigitValue(c) == (CHOOSE k \in 1..Len(Digits) : Digits[k] = c) - 1

RECURSIVE Decimal(_)
Decimal(s) == IF s = <<>> THEN 0 ELSE Decimal(SubSeq(s, 1, Len(s) - 1)) * 10 + DigitValue(s[Len(s)])

\* int(text): <<n>>, or <<>> where int raises ValueError
IntOf(s) ==
    LET t == Strip(s)
        signed == t # <<>> /\ t[1] \in {"+", "-"}
        body == IF signed THEN Tail(t) ELSE t
    IN  IF body = <<>> \/ \E i \in 1..Len(body) : body[i] \notin Range(Digits)
        THEN <<>>
        ELSE IF signed /\ t[1] = "-" THEN <<0 - Decimal(body)>> ELSE <<Decimal(body)>>

TextSUPPLY == <<"S", "U", "P", "P", "L", "Y">>
TextDEMAND == <<"D", "E", "M", "A", "N", "D">>
TextCOSTS == <<"C", "O", "S", "T", "S">>
TextSOLUTION == <<"S", "O", "L", "U", "T", "I", "O", "N">>
TextMETADATA == <<"M", "E", "T", "A", "D", "A", "T", "A">>

\* the section a header line names, "" for any other line
SectionNamed(line) ==
    CASE line = TextSUPPLY -> "SUPPLY"
      [] line = TextDEMAND -> "DEMAND"
      [] line = TextCOSTS -> "COSTS"
      [] line = TextSOLUTION -> "SOLUTION"
      [] OTHER -> ""

\* d[key] = value on a dict
DictSet(d, key, value) == [k \in DOMAIN d \cup {key} |-> IF k = key THEN value ELSE d[k]]

\* variant: only empty lines are skipped
SkipLineEmptyOnly(line) == line = <<>>

\* if not line or line.startswith('#'): continue
SkipLine(line) == line = <<>> \/ StartsWithHash(line)

\* variant: a METADATA line is passed over and the loop goes on
AtMetadataContinue(st) == [st EXCEPT !.pos = @ + 1]

\* elif line == 'METADATA': break -- the loop ends and the dicts are returned
AtMetadata(st) == [st EXCEPT !.state = "returned"]

\* ValueError from int(): read_csv_data ends without returning
ReadRaises(st) == [st EXCEPT !.state = "raised"]

\* a row of the SUPPLY or DEMAND section: three parts, the third an int
ThreePartRow(st, field, parts) ==
    IF Len(parts) # 3 THEN [st EXCEPT !.pos = @ + 1]
    ELSE IF IntOf(parts[3]) = <<>> THEN ReadRaises(st)
    ELSE [st EXCEPT !.pos = @ + 1, ![field] = DictSet(@, parts[1], IntOf(parts[3])[1])]

\* a row of the COSTS section: five parts, the last four ints for T1..T4
CostsRow(st, parts) ==
    IF Len(parts) # 5 THEN [st EXCEPT !.pos = @ + 1]
    ELSE IF \E k \in 2..5 : IntOf(parts[k]) = <<>> THEN ReadRaises(st)
    ELSE [st EXCEPT !.pos = @ + 1,
                    !.costs = DictSet(@, parts[1],
                                      [T1 |-> IntOf(parts[2])[1], T2 |-> IntOf(parts[3])[1],
                                       T3 |-> IntOf(parts[4])[1], T4 |-> IntOf(parts[5])[1]])]

\* one pass of "for line in lines"
ReadLine(st) ==
    LET line == Strip(st.lines[st.pos])
    IN  IF SkipLine(line) THEN [st EXCEPT !.pos = @ + 1]
        ELSE IF SectionNamed(line) # "" THEN [st EXCEPT !.pos = @ + 1, !.section = SectionNamed(line)]
        ELSE IF line = TextMETADATA THEN AtMetadata(st)
        ELSE IF st.section = "SUPPLY" THEN ThreePartRow(st, "supply", Split(line))
        ELSE IF st.section = "DEMAND" THEN ThreePartRow(st, "demand", Split(line))
        ELSE IF st.section = "COSTS" THEN CostsRow(st, Split(line))
        ELSE [st EXCEPT !.pos = @ + 1]

\* read_csv_data entered: empty dicts, current_section = None
ReadStart(lines) ==
    [lines |-> lines, pos |-> 1, section |-> "None", state |-> "reading",
     supply |-> EmptyFn, demand |-> EmptyFn, costs |-> EmptyFn]

\* read_csv_data run to its end on one file
RECURSIVE ReadAll(_)
ReadAll(st) ==
    IF st.state # "reading" THEN st
    ELSE IF st.pos > Len(st.lines) THEN [st EXCEPT !.state = "returned"]
    ELSE ReadAll(ReadLine(st))

\* the lines the files of the model are made of
SampleLines ==
    {TextSUPPLY \o <<"\n">>,
     TextDEMAND \o <<"\n">>,
     TextCOSTS \o <<"\n">>,
     TextSOLUTION \o <<"\n">>,
     TextMETADATA \o <<"\n">>,
     <<" ", "\n">>,
     <<"#", "G", "1", ",", "a", ",", "1", "\n">>,
     <<"G", "1", ",", "a", ",", "1", "\n">>,
     <<"G", "2", ",", "a", ",", "x", "\n">>,
     <<"G", "1", ",", "1", ",", "0", ",", "-", "1", ",", "2", "\n">>}

Files == UNION {[1..n -> SampleLines] : n \in 0..MaxLines}

InitCsv ==
    /\ prog = "csv_optimizer"
    /\ pc = "main"
    /\ csvFile = "present"
    /\ supply = EmptyFn
    /\ demand = EmptyFn
    /\ costs = EmptyFn
    /\ nchanges = 0
    /\ model = NoModel
    /\ x = NoX
    /\ solution = NoneSolution
    /\ ret = NoRet
    /\ solverInvoked = FALSE
    /\ report = NoReport
    /\ validation = NoValidation
    /\ work = NoWork
    /\ balance = NoBalance
    /\ matrix = NoMatrix
    /\ solves = <<>>
    /\ objects = NoObjects
    /\ parse \in {ReadStart(f) : f \in Files}
    /\ excel = NoExcel
    /\ disk = NoDisk

OnlyParse ==
    UNCHANGED <<prog, csvFile, pc, supply, demand, costs, nchanges, model, x, solution, ret,
                solverInvoked, report, validation, work, balance, matrix, solves, objects,
                excel, disk>>

read_line ==
    /\ parse # NoParse
    /\ parse.state = "reading"
    /\ parse.pos <= Len(parse.lines)
    /\ parse' = ReadLine(parse)
    /\ OnlyParse

\* the loop ran off the end of the file: return supply, demand, costs
return_data ==
    /\ parse # NoParse
    /\ parse.state = "reading"
    /\ parse.pos > Len(parse.lines)
    /\ parse' = [parse EXCEPT !.state = "returned"]
    /\ OnlyParse

NextCsv ==
    \/ read_line
    \/ return_data

SpecCsv == InitCsv /\ [][NextCsv]_vars

\* the section named by the latest header line among the first n lines
LastHeader(lines, n) ==
    IF \E i \in 1..n : SectionNamed(Strip(lines[i])) # ""
    THEN LET i == CHOOSE i \in 1..n :
                      /\ SectionNamed(Strip(lines[i])) # ""
                      /\ \A h \in (i + 1)..n : SectionNamed(Strip(lines[h])) = ""
         IN  SectionNamed(Strip(lines[i]))
    ELSE "None"

\* the loop is about to read a line
ReadingALine == parse # NoParse /\ parse.state = "reading" /\ parse.pos <= Len(parse.lines)

SameDicts ==
    /\ parse'.supply = parse.supply
    /\ parse'.demand = parse.demand
    /\ parse'.costs = parse.costs

SampleSupplyRow == <<"G", "1", ",", "a", ",", "1", "\n">>
SampleComment == <<"#", "G", "1", ",", "a", ",", "1", "\n">>

\* C23: in read_csv_data every data row is attributed to the section named
\* by the most recent header line (SUPPLY, DEMAND, COSTS or SOLUTION): rows
\* before the first header and rows of a SOLUTION section never change
\* supply, demand or costs, and comment lines (starting with #) and blank
\* lines neither change the current section nor add data.
C23_RowsGoToLatestSection ==
    [][ReadingALine =>
           LET line == Strip(parse.lines[parse.pos])
               m == LastHeader(parse.lines, parse.pos - 1)
               parts == Split(line)
           IN  /\ parse.section = m
               /\ (line = <<>> \/ StartsWithHash(line)) =>
                      SameDicts /\ parse'.section = parse.section
               /\ (m # "SUPPLY") => parse'.supply = parse.supply
               /\ (m # "DEMAND") => parse'.demand = parse.demand
               /\ (m # "COSTS") => parse'.costs = parse.costs
               /\ (m \in {"None", "SOLUTION"}) => SameDicts
               /\ (/\ m = "SUPPLY" /\ parse'.state = "reading"
                   /\ ~StartsWithHash(line) /\ Len(parts) = 3) =>
                      /\ parts[1] \in DOMAIN parse'.supply
                      /\ <<parse'.supply[parts[1]]>> = IntOf(parts[3])
                      /\ parse'.demand = parse.demand /\ parse'.costs = parse.costs
       ]_vars

\* a file with a row before the first header, then SUPPLY, a comment and a
\* row: read to the end, the one row after SUPPLY is the data returned
C23_Witness ==
    /\ parse # NoParse
    /\ parse.state = "returned"
    /\ Len(parse.lines) = 4
    /\ parse.lines[1] = SampleSupplyRow
    /\ Strip(parse.lines[2]) = TextSUPPLY
    /\ parse.lines[3] = SampleComment
    /\ parse.lines[4] = SampleSupplyRow
    /\ parse.supply = DictSet(EmptyFn, <<"G", "1">>, 1)
    /\ parse.demand = EmptyFn /\ parse.costs = EmptyFn

\* the file holds a METADATA line
HasMetadata(lines) == \E i \in 1..Len(lines) : Strip(lines[i]) = TextMETADATA

FirstMetadata(lines) ==
    CHOOSE i \in 1..Len(lines) :
        /\ Strip(lines[i]) = TextMETADATA
        /\ \A h \in 1..(i - 1) : Strip(lines[h]) # TextMETADATA

\* C24: once a METADATA line has been read no later line affects the result,
\* even a later SUPPLY, DEMAND or COSTS header followed by well-formed rows:
\* the returned supply, demand and costs are exactly those accumulated before
\* the METADATA line, i.e. those returned for the file cut off before it.
C24_NothingAfterMetadata ==
    (parse # NoParse /\ parse.state = "returned" /\ HasMetadata(parse.lines)) =>
        LET cut == ReadAll(ReadStart(SubSeq(parse.lines, 1, FirstMetadata(parse.lines) - 1)))
        IN  /\ cut.state = "returned"
            /\ parse.supply = cut.supply
            /\ parse.demand = cut.demand
            /\ parse.costs = cut.costs
            /\ parse.pos = FirstMetadata(parse.lines)

\* a file with SUPPLY, METADATA, SUPPLY again and a well-formed row has been
\* read: nothing is returned for the row
C24_Witness ==
    /\ parse # NoParse
    /\ parse.state = "returned"
    /\ Len(parse.lines) = 4
    /\ Strip(parse.lines[1]) = TextSUPPLY
    /\ Strip(parse.lines[2]) = TextMETADATA
    /\ Strip(parse.lines[3]) = TextSUPPLY
    /\ parse.lines[4] = SampleSupplyRow
    /\ parse.supply = EmptyFn

(***************************************************************************)
(* Boundedness of the formulation.                                         *)
(***************************************************************************)
\* instances of every sign of cost, formulated and solved
InitSigned ==
    /\ prog = "python_solver"
    /\ pc = "api"
    /\ csvFile = "n/a"
    /\ supply \in [W -> InstanceQtys]
    /\ demand \in [D -> InstanceQtys]
    /\ costs \in [Pairs -> CostVals]
    /\ nchanges = 0
    /\ model = NoModel
    /\ x = NoX
    /\ solution = NoneSolution
    /\ ret = NoRet
    /\ solverInvoked = FALSE
    /\ report = NoReport
    /\ validation = NoValidation
    /\ work = NoWork
    /\ balance = NoBalance
    /\ matrix = NoMatrix
    /\ solves = <<>>
    /\ objects = NoObjects
    /\ parse = NoParse
    /\ excel = NoExcel
    /\ disk = NoDisk

NextSigned ==
    \/ build_model
    \/ solve

SpecSigned == InitSigned /\ [][NextSigned]_vars

\* the right-hand side of the supply row of warehouse w
SupplyRowRhs(lp, w) ==
    LET k == CHOOSE k \in 1..Len(lp.constraints) : lp.constraints[k].name = <<"Supply", w>>
    IN  lp.constraints[k].rhs

\* C25: whatever the sign of the costs, the formulated LP is never
\* unbounded: every variable is bounded below by 0 and above by its
\* warehouse's capacity through the supply row, so the feasible region has
\* no direction to go on in and the solve status is never Unbounded.
C25_NeverUnbounded ==
    model.built =>
        /\ Rays(model.lp) = {}
        /\ model.status # "Unbounded"
        /\ model.lp.vars.lowBound = 0
        /\ \A p \in Range(model.lp.vars.names) :
              \E k \in 1..Len(model.lp.constraints) :
                  /\ model.lp.constraints[k].name = <<"Supply", p[1]>>
                  /\ model.lp.constraints[k].sense = "<="
                  /\ p \in Range(model.lp.constraints[k].terms)
        /\ x.state = "Solved" =>
              \A p \in Range(model.lp.vars.names) :
                  0 <= x.val[p] /\ x.val[p] <= SupplyRowRhs(model.lp, p[1])

\* a formulation with a negative unit cost has been solved to optimality
C25_Witness ==
    /\ model.built
    /\ \E k \in 1..Len(model.lp.objective) : model.lp.objective[k].coef < 0
    /\ model.status = "Optimal"
    /\ x.state = "Solved"
    /\ \E p \in Pairs : x.val[p] > 0

(***************************************************************************)
(* Totals of an optimal solution.                                          *)
(***************************************************************************)
\* total of the unused column of the utilization table
UnusedColumnTotal(util) == SumSeq([k \in 1..Len(Warehouses) |-> util[Warehouses[k]].unused])

\* total shipped: the sum of all the variables' values
TotalShipped(val) == SumSeq([k \in 1..Len(Warehouses) |-> RowTotal(Warehouses[k], Destinations, val)])

\* C26: for every optimal solution the unused capacity summed over all
\* warehouses equals total supply minus total demand and the total shipped
\* quantity equals total demand -- in the variables' values, in the
\* utilization and fulfilment tables and in the Ringkasan sheet.
C26_TotalsBalance ==
    OptimalNow =>
        /\ TotalShipped(x.val) = TotalDemand
        /\ TotalSupply - TotalShipped(x.val) = TotalSupply - TotalDemand
        /\ (report.made /\ ret.op = "display_results" /\ report.exc = "") =>
              /\ UnusedColumnTotal(report.util) = TotalSupply - TotalDemand
              /\ SumValues(report.fulfil, Destinations) = TotalDemand
        /\ (report.made /\ ret.op = "export_to_excel") =>
              LET r == report.summary[1]
              IN  /\ r.total_supply = TotalSupply
                  /\ r.total_demand = TotalDemand
                  /\ r.used = r.total_demand
                  /\ r.unused = r.total_supply - r.total_demand

\* the summary sheet of an optimal solution that ships something and leaves
\* some capacity unused has been written
C26_Witness ==
    /\ OptimalNow
    /\ report.made
    /\ ret.op = "export_to_excel"
    /\ report.summary # <<>>
    /\ report.summary[1].used > 0
    /\ report.summary[1].unused > 0
    /\ report.summary[1].used + report.summary[1].unused = TotalSupply

(***************************************************************************)
(* When the reporting methods report.                                      *)
(***************************************************************************)
\* C27: display_results, visualize_solution and export_to_excel produce
\* their report if and only if the most recent solve was optimal: they return
\* without output when no solve has succeeded, and they do report after an
\* optimal solve even when the optimal allocation ships nothing on any route
\* (an empty Solution mapping).
C27_ReportIffLastSolveOptimal ==
    (ret.op \in ReportingOps /\ model.built /\ model.status # "Not Solved") =>
        (report.made <=> model.status = "Optimal")

(***************************************************************************)
(* excel_solver.py: the Solver template, written cell by cell, and the     *)
(* two methods that read a workbook back.  A worksheet is a function from  *)
(* <<row, column>> to the cell written there last.                         *)
(***************************************************************************)
MaxWarehouses == 5
MaxDestinations == 5
MaxFill == 1

\* names for TransportationData objects of other shapes than the default
ExcelWarehouses == MediCareWarehouses \o <<"Gudang_5", "Gudang_6">>
ExcelDestinations == MediCareDestinations \o <<"RS_6">>

\* dest.replace('_', ' ')
ReplaceUnderscores(name) ==
    CASE name = "RS_Jakarta_Pusat" -> "RS Jakarta Pusat"
      [] name = "RS_Tangerang" -> "RS Tangerang"
      [] name = "RS_Bekasi" -> "RS Bekasi"
      [] name = "Apotek_Depok" -> "Apotek Depok"
      [] name = "RS_Bogor" -> "RS Bogor"
      [] name = "RS_6" -> "RS 6"
      [] OTHER -> name

\* a TransportationData of m warehouses and n destinations: the constructor's
\* figures for the constructor's names
DataOfShape(m, n) ==
    LET ws == SubSeq(ExcelWarehouses, 1, m)
        ds == SubSeq(ExcelDestinations, 1, n)
    IN  [warehouses |-> ws,
         destinations |-> ds,
         supply |-> [w \in Range(ws) |-> IF w \in DOMAIN MediCareSupply THEN MediCareSupply[w] ELSE 100],
         demand |-> [d \in Range(ds) |-> IF d \in DOMAIN MediCareDemand THEN MediCareDemand[d] ELSE 100],
         costs |-> [p \in Range(ws) \X Range(ds) |->
                       IF p \in DOMAIN MediCareCosts THEN MediCareCosts[p] ELSE 10]]

\* openpyxl.utils.get_column_letter and its inverse
ColumnLetters == <<"A", "B", "C", "D", "E", "F", "G", "H", "I", "J">>
get_column_letter(j) == ColumnLetters[j]
column_index(letter) == IndexOf(ColumnLetters, letter)

\* "B5:F8"
CellRange(c1, r1, c2, r2) == [c1 |-> c1, r1 |-> r1, c2 |-> c2, r2 |-> r2]
CellsOf(rg) == (rg.r1..rg.r2) \X (column_index(rg.c1)..column_index(rg.c2))

\* cell values: nothing, a string (an instruction names its ranges), a
\* number, a formula with the value Excel computed for it, if any
EmptyCell == [t |-> "none", s |-> "", n |-> 0, args |-> <<>>, cached |-> <<>>]
Text(s) == [t |-> "str", s |-> s, n |-> 0, args |-> <<>>, cached |-> <<>>]
TextNaming(s, ranges) == [t |-> "str", s |-> s, n |-> 0, args |-> ranges, cached |-> <<>>]
Number(n) == [t |-> "num", s |-> "", n |-> n, args |-> <<>>, cached |-> <<>>]
Formula(fn, ranges) == [t |-> "formula", s |-> fn, n |-> 0, args |-> ranges, cached |-> <<>>]

\* the row counter of create_solver_workbook at each section
TemplateLayout(data) ==
    LET m == Len(data.warehouses)
        n == Len(data.destinations)
        cost_start_row == 5
        cost_end_row == cost_start_row + m - 1
        supply_row_start == cost_end_row + 2
        supply_data_start == supply_row_start + 2
        demand_data_end == supply_data_start + n - 1
        allocation_title_row == demand_data_end + 3
        allocation_start_row == allocation_title_row + 2
        allocation_end_row == allocation_start_row + m - 1
        total_row == allocation_end_row + 1
    IN  [cost_start_row |-> cost_start_row,
         cost_end_row |-> cost_end_row,
         supply_row_start |-> supply_row_start,
         supply_data_start |-> supply_data_start,
         supply_data_end |-> supply_data_start + m - 1,
         demand_data_start |-> supply_data_start,
         demand_data_end |-> demand_data_end,
         allocation_title_row |-> allocation_title_row,
         allocation_start_row |-> allocation_start_row,
         allocation_end_row |-> allocation_end_row,
         total_row |-> total_row,
         objective_row |-> total_row + 3,
         instructions_row |-> total_row + 6]

\* the changing cells, the two sides of constraint a) and of constraint b)
ChangingCells(data) ==
    LET L == TemplateLayout(data)
    IN  CellRange("B", L.allocation_start_row,
                  get_column_letter(Len(data.destinations) + 1), L.allocation_end_row)

ShippedRange(data) ==
    LET L == TemplateLayout(data)
        c == get_column_letter(Len(data.destinations) + 2)
    IN  CellRange(c, L.allocation_start_row, c, L.allocation_end_row)

SupplyRange(data) ==
    LET L == TemplateLayout(data)
    IN  CellRange("B", L.supply_data_start, "B", L.supply_data_end)

ReceivedRange(data) ==
    LET L == TemplateLayout(data)
    IN  CellRange("B", L.total_row, get_column_letter(Len(data.destinations) + 1), L.total_row)

DemandRange(data) ==
    LET L == TemplateLayout(data)
    IN  CellRange("E", L.demand_data_start, "E", L.demand_data_end)

\* the header row over a matrix
MatrixHeader(row, ds) ==
    <<  <<row, 1, Text("From \\ To")>>  >>
    \o [j \in 1..Len(ds) |-> <<row, j + 1, Text(ReplaceUnderscores(ds[j]))>>]

\* the ws.cell(row, column, value) calls of create_solver_workbook, in order
TemplateWrites(data) ==
    LET ws == data.warehouses
        ds == data.destinations
        m == Len(ws)
        n == Len(ds)
        L == TemplateLayout(data)
        last == get_column_letter(n + 1)
    IN  <<  <<1, 1, Text("Transportation Problem - PT. MediCare Indonesia")>>,
            <<3, 1, Text("COST MATRIX (Rp thousands per unit)")>>  >>
        \o MatrixHeader(4, ds)
        \o Concat([i \in 1..m |->
              <<  <<L.cost_start_row + i - 1, 1, Text(ws[i])>>  >>
              \o [j \in 1..n |-> <<L.cost_start_row + i - 1, j + 1, Number(data.costs[<<ws[i], ds[j]>>])>>]])
        \o <<  <<L.supply_row_start, 1, Text("SUPPLY (Capacity)")>>,
               <<L.supply_row_start, 4, Text("DEMAND (Requirements)")>>,
               <<L.supply_row_start + 1, 1, Text("Warehouse")>>,
               <<L.supply_row_start + 1, 2, Text("Capacity")>>,
               <<L.supply_row_start + 1, 4, Text("Destination")>>,
               <<L.supply_row_start + 1, 5, Text("Demand")>>  >>
        \o Concat([i \in 1..m |->
              <<  <<L.supply_data_start + i - 1, 1, Text(ws[i])>>,
                  <<L.supply_data_start + i - 1, 2, Number(data.supply[ws[i]])>>  >>])
        \o Concat([j \in 1..n |->
              <<  <<L.demand_data_start + j - 1, 4, Text(ReplaceUnderscores(ds[j]))>>,
                  <<L.demand_data_start + j - 1, 5, Number(data.demand[ds[j]])>>  >>])
        \o <<  <<L.allocation_title_row, 1, Text("ALLOCATION MATRIX (Decision Variables)")>>,
               <<L.allocation_title_row, 8, Text("<- Solver will change these cells")>>  >>
        \o MatrixHeader(L.allocation_title_row + 1, ds)
        \o <<  <<L.allocation_title_row + 1, n + 2, Text("Total Shipped")>>  >>
        \o Concat([i \in 1..m |->
              LET row == L.allocation_start_row + i - 1
              IN  <<  <<row, 1, Text(ws[i])>>  >>
                  \o [j \in 1..n |-> <<row, j + 1, Number(0)>>]
                  \o <<  <<row, n + 2, Formula("SUM", <<CellRange(get_column_letter(2), row, last, row)>>)>>  >>])
        \o <<  <<L.total_row, 1, Text("Total Received")>>  >>
        \o [j \in 1..n |->
              <<L.total_row, j + 1,
                Formula("SUM", <<CellRange(get_column_letter(j + 1), L.allocation_start_row,
                                           get_column_letter(j + 1), L.allocation_end_row)>>)>>]
        \o <<  <<L.total_row + 2, 1, Text("OBJECTIVE FUNCTION")>>,
               <<L.objective_row, 1, Text("Total Transportation Cost:")>>,
               <<L.objective_row, 2,
                 Formula("SUMPRODUCT", <<CellRange("B", L.cost_start_row, last, L.cost_end_row),
                                         ChangingCells(data)>>)>>,
               <<L.objective_row, 3, Text("Rp thousands")>>,
               <<L.instructions_row, 1, Text("SOLVER SETUP INSTRUCTIONS:")>>,
               <<L.instructions_row + 1, 1, Text("1. Go to Data -> Solver")>>,
               <<L.instructions_row + 2, 1,
                 TextNaming("2. Set Objective (Min)", <<CellRange("B", L.objective_row, "B", L.objective_row)>>)>>,
               <<L.instructions_row + 3, 1,
                 TextNaming("3. By Changing Variable Cells", <<ChangingCells(data)>>)>>,
               <<L.instructions_row + 4, 1, Text("4. Add Constraints:")>>,
               <<L.instructions_row + 5, 1,
                 TextNaming("a) Total Shipped <= Supply", <<ShippedRange(data), SupplyRange(data)>>)>>,
               <<L.instructions_row + 6, 1,
                 TextNaming("b) Total Received = Demand", <<ReceivedRange(data), DemandRange(data)>>)>>,
               <<L.instructions_row + 7, 1,
                 TextNaming("c) Non-negative", <<ChangingCells(data)>>)>>,
               <<L.instructions_row + 8, 1, Text("5. Select Solving Method: Simplex LP")>>,
               <<L.instructions_row + 9, 1, Text("6. Make Unconstrained Variables Non-Negative")>>,
               <<L.instructions_row + 10, 1, Text("7. Click Solve")>>,
               <<L.instructions_row + 11, 1, Text("8. Keep Solver Solution")>>  >>

\* the worksheet a list of writes leaves: each cell holds its last write
SheetOf(writes) ==
    [rc \in {<<writes[k][1], writes[k][2]>> : k \in 1..Len(writes)} |->
        LET k == CHOOSE k \in 1..Len(writes) :
                     /\ <<writes[k][1], writes[k][2]>> = rc
                     /\ \A h \in (k + 1)..Len(writes) : <<writes[h][1], writes[h][2]>> # rc
        IN  writes[k][3]]

\* ws.cell(row, column)
CellAt(sheet, row, col) == IF <<row, col>> \in DOMAIN sheet THEN sheet[<<row, col>>] ELSE EmptyCell

\* what Excel's SUM and SUMPRODUCT see in a cell: a number, anything else 0
NumberIn(sheet, row, col) ==
    LET c == CellAt(sheet, row, col) IN IF c.t = "num" THEN c.n ELSE 0

\* the cells of a range, row by row
RangeCells(rg) ==
    LET c1 == column_index(rg.c1)
        width == column_index(rg.c2) - c1 + 1
    IN  [k \in 1..((rg.r2 - rg.r1 + 1) * width) |->
            <<rg.r1 + ((k - 1) \div width), c1 + ((k - 1) % width)>>]

\* the value Excel computes for a formula of the template
Calculate(sheet, cell) ==
    LET a == RangeCells(cell.args[1])
    IN  IF cell.s = "SUM"
        THEN SumSeq([k \in 1..Len(a) |-> NumberIn(sheet, a[k][1], a[k][2])])
        ELSE LET b == RangeCells(cell.args[2])
             IN  SumSeq([k \in 1..Len(a) |-> NumberIn(sheet, a[k][1], a[k][2])
                                               * NumberIn(sheet, b[k][1], b[k][2])])

\* the workbook after Solver has put q in every changing cell and Excel has
\* recalculated and saved it
SolvedSheet(sheet, changing, q) ==
    LET filled == [rc \in DOMAIN sheet \cup CellsOf(changing) |->
                      IF rc \in CellsOf(changing) THEN Number(q) ELSE sheet[rc]]
    IN  [rc \in DOMAIN filled |->
            IF filled[rc].t = "formula"
            THEN [filled[rc] EXCEPT !.cached = <<Calculate(filled, filled[rc])>>]
            ELSE filled[rc]]

\* cell.value under load_workbook(data_only=True): a formula gives the value
\* Excel stored for it, None when no Excel has calculated the workbook
DataOnly(cell) ==
    IF cell.t = "formula"
    THEN IF cell.cached = <<>> THEN EmptyCell ELSE Number(cell.cached[1])
    ELSE cell

\* the coordinates the two readers use
ReaderAllocationStartRow == 15
ReaderObjectiveRow == 20

NoExcelRet ==
    [op |-> "", exc |-> "", allocation |-> EmptyFn, total_cost |-> <<>>,
     is_valid |-> FALSE, issues |-> <<>>]

ExcelRaised(op, exc) == [NoExcelRet EXCEPT !.op = op, !.exc = exc]

\* read_solver_results: the m x n block at row 15, column B, "if value and
\* value > 0" on each cell, then cell (20, 2) printed with the format ,.0f
ReadResults(data, file) ==
    IF file = <<>>
    THEN ExcelRaised("read_solver_results", "FileNotFoundError")
    ELSE LET sheet == file[1]
             ws == data.warehouses
             ds == data.destinations
             at(i, j) == DataOnly(CellAt(sheet, ReaderAllocationStartRow + i - 1, 2 + j - 1))
             objective == DataOnly(CellAt(sheet, ReaderObjectiveRow, 2))
         IN  IF \E i \in 1..Len(ws), j \in 1..Len(ds) : at(i, j).t = "str"
             THEN ExcelRaised("read_solver_results", "TypeError")
             ELSE IF objective.t = "none"
             THEN ExcelRaised("read_solver_results", "TypeError")
             ELSE IF objective.t = "str"
             THEN ExcelRaised("read_solver_results", "ValueError")
             ELSE [NoExcelRet EXCEPT
                      !.op = "read_solver_results",
                      !.allocation =
                          [p \in {<<ws[i], ds[j]>> : i \in 1..Len(ws), j \in 1..Len(ds)}
                                 \cap {<<ws[i], ds[j]>> : <<i, j>> \in
                                          {ij \in (1..Len(ws)) \X (1..Len(ds)) :
                                              at(ij[1], ij[2]).t = "num" /\ at(ij[1], ij[2]).n > 0}}
                             |-> at(IndexOf(ws, p[1]), IndexOf(ds, p[2])).n],
                      !.total_cost = <<objective.n>>]

\* validate_solver_setup: B20 must hold a formula, B15 must hold something
SetupIssues(file) ==
    IF file = <<>>
    THEN <<"Error reading file">>
    ELSE LET b20 == CellAt(file[1], ReaderObjectiveRow, 2)
             b15 == CellAt(file[1], ReaderAllocationStartRow, 2)
         IN  (IF b20.t = "formula" THEN <<>> ELSE <<"Objective function not found or invalid">>)
             \o (IF b15.t = "none" THEN <<"Allocation matrix appears empty">> ELSE <<>>)

OnlyExcel ==
    UNCHANGED <<prog, csvFile, pc, supply, demand, costs, nchanges, model, x, solution, ret,
                solverInvoked, report, validation, work, balance, matrix, solves, objects,
                parse, disk>>

create_solver_workbook ==
    /\ excel # NoExcel
    /\ excel' = [excel EXCEPT !.file = <<SheetOf(TemplateWrites(excel.data))>>,
                              !.ret = [NoExcelRet EXCEPT !.op = "create_solver_workbook"]]
    /\ OnlyExcel

\* the user follows the instructions of the sheet: Solver, then save
solver_in_excel(q) ==
    /\ excel # NoExcel
    /\ excel.file # <<>>
    /\ excel' = [excel EXCEPT !.file = <<SolvedSheet(excel.file[1], ChangingCells(excel.data), q)>>,
                              !.ret = [NoExcelRet EXCEPT !.op = "solver_in_excel"]]
    /\ OnlyExcel

read_solver_results ==
    /\ excel # NoExcel
    /\ excel' = [excel EXCEPT !.ret = ReadResults(excel.data, excel.file)]
    /\ OnlyExcel

validate_solver_setup ==
    /\ excel # NoExcel
    /\ LET issues == SetupIssues(excel.file)
       IN  excel' = [excel EXCEPT !.ret = [NoExcelRet EXCEPT !.op = "validate_solver_setup",
                                                             !.is_valid = (issues = <<>>),
                                                             !.issues = issues]]
    /\ OnlyExcel

InitExcel ==
    /\ prog = "model_formulation"
    /\ pc = "api"
    /\ csvFile = "n/a"
    /\ supply = DefaultSupply
    /\ demand = DefaultDemand
    /\ costs = DefaultCosts
    /\ nchanges = 0
    /\ model = NoModel
    /\ x = NoX
    /\ solution = NoneSolution
    /\ ret = NoRet
    /\ solverInvoked = FALSE
    /\ report = NoReport
    /\ validation = NoValidation
    /\ work = NoWork
    /\ balance = NoBalance
    /\ matrix = NoMatrix
    /\ solves = <<>>
    /\ objects = NoObjects
    /\ parse = NoParse
    /\ disk = NoDisk
    /\ excel \in {[data |-> DataOfShape(m, n), file |-> <<>>, ret |-> NoExcelRet] :
                     m \in 1..MaxWarehouses, n \in 1..MaxDestinations}

NextExcel ==
    \/ create_solver_workbook
    \/ \E q \in 0..MaxFill : solver_in_excel(q)
    \/ read_solver_results
    \/ validate_solver_setup

SpecExcel == InitExcel /\ [][NextExcel]_vars

(***************************************************************************)
(* The template against its readers and against the data.                  *)
(***************************************************************************)
\* the helper holds the data of TransportationData()
DefaultData == excel # NoExcel /\ excel.data = DataOfShape(4, 5)

\* the positive allocation cells of the workbook, by pair
AllocationCells(data, sheet) ==
    LET ws == data.warehouses
        ds == data.destinations
        L == TemplateLayout(data)
        at(p) == DataOnly(CellAt(sheet, L.allocation_start_row + IndexOf(ws, p[1]) - 1,
                                 1 + IndexOf(ds, p[2])))
    IN  [p \in {q \in Range(ws) \X Range(ds) : at(q).t = "num" /\ at(q).n > 0} |-> at(p).n]

\* C28: for the default 4-warehouse, 5-destination data the coordinates
\* read by read_solver_results and validate_solver_setup (allocation matrix
\* from row 15 column B, objective in B20) are the cells where
\* create_solver_workbook puts the allocation matrix and the objective
\* formula, so a template written and read back yields the allocation cells
\* and the objective cell.
C28_ReadersReadTheTemplate ==
    (DefaultData /\ excel.file # <<>>) =>
        LET L == TemplateLayout(excel.data)
            sheet == excel.file[1]
        IN  /\ L.allocation_start_row = ReaderAllocationStartRow
            /\ L.objective_row = ReaderObjectiveRow
            /\ excel.ret.op = "validate_solver_setup" => excel.ret.is_valid
            /\ (excel.ret.op = "read_solver_results"
                    /\ CellAt(sheet, L.objective_row, 2).cached # <<>>) =>
                  /\ excel.ret.exc = ""
                  /\ excel.ret.allocation = AllocationCells(excel.data, sheet)
                  /\ excel.ret.total_cost = CellAt(sheet, L.objective_row, 2).cached

\* the cell is the formula SUM over the range
IsSumOver(cell, rg) == cell.t = "formula" /\ cell.s = "SUM" /\ cell.args = <<rg>>

MaxExisting == 1
MaxCalls == 1

required_dirs ==
    <<"data", "src", "notebooks", "results/UTS", "results/UAS/visualizations", "docs", "presentation">>

data_files ==
    <<"data/warehouse_capacity.csv", "data/destination_demand.csv",
      "data/transportation_cost.csv", "data/input_data.xlsx">>

SetupFiles == <<"src/__init__.py", ".gitignore", "requirements.txt", "QUICKSTART.md", "setup.log">>

SetupPaths ==
    Range(required_dirs) \cup {"results", "results/UAS"} \cup Range(data_files) \cup Range(SetupFiles)

\* the directory a path lies in ("" for the project root)
Parent(path) ==
    CASE path \in {"results/UTS", "results/UAS"} -> "results"
      [] path = "results/UAS/visualizations" -> "results/UAS"
      [] path = "src/__init__.py" -> "src"
      [] path \in Range(data_files) -> "data"
      [] OTHER -> ""

Ancestors(path) ==
    LET p1 == Parent(path)
        p2 == IF p1 = "" THEN "" ELSE Parent(p1)
        p3 == IF p2 = "" THEN "" ELSE Parent(p2)
    IN  {p1, p2, p3} \ {""}

Nothing == [kind |-> "absent", text |-> <<>>]
Directory == [kind |-> "dir", text |-> <<>>]
File(text) == [kind |-> "file", text |-> text]

\* text of a file that was there before any setup
UserText == << <<"user">> >>

\* Path.exists()
Exists(fs, path) == fs[path].kind # "absent"

\* Path.mkdir(parents=True, exist_ok=True)
Mkdir(fs, path) ==
    IF \E a \in Ancestors(path) : fs[a].kind = "file"
    THEN [fs |-> fs, exc |-> "NotADirectoryError"]
    ELSE IF fs[path].kind = "file"
    THEN [fs |-> fs, exc |-> "FileExistsError"]
    ELSE [fs |-> [q \in SetupPaths |-> IF q \in Ancestors(path) \cup {path} THEN Directory ELSE fs[q]],
          exc |-> ""]

\* Path.write_text(text)
WriteText(fs, path, text) ==
    IF \E a \in Ancestors(path) : fs[a].kind = "file"
    THEN [fs |-> fs, exc |-> "NotADirectoryError"]
    ELSE IF \E a \in Ancestors(path) : fs[a].kind = "absent"
    THEN [fs |-> fs, exc |-> "FileNotFoundError"]
    ELSE IF fs[path].kind = "dir"
    THEN [fs |-> fs, exc |-> "IsADirectoryError"]
    ELSE [fs |-> [fs EXCEPT ![path] = File(text)], exc |-> ""]

\* self.log(message, level): a line of self.setup_log
Logged(st, message) == [st EXCEPT !.log = Append(@, message)]

\* variant: the text written whether or not the path exists
WriteAlways(st, path, text, elseLogs) ==
    LET w == WriteText(st.fs, path, text)
    IN  IF w.exc # ""
        THEN [st EXCEPT !.exc = w.exc]
        ELSE Logged([st EXCEPT !.fs = w.fs], <<"Created", path>>)

\* "if not path.exists(): path.write_text(text); log Created / else: log
\* Already exists" (create_readme has no else branch)
WriteIfAbsent(st, path, text, elseLogs) ==
    IF Exists(st.fs, path)
    THEN IF elseLogs THEN Logged(st, <<"Already exists", path>>) ELSE st
    ELSE LET w == WriteText(st.fs, path, text)
         IN  IF w.exc # ""
             THEN [st EXCEPT !.exc = w.exc]
             ELSE Logged([st EXCEPT !.fs = w.fs], <<"Created", path>>)

\* the loop of create_directories from the k-th directory on
RECURSIVE DirectoriesFrom(_, _)
DirectoriesFrom(st, k) ==
    IF k > Len(required_dirs)
    THEN st
    ELSE LET path == required_dirs[k]
         IN  IF Exists(st.fs, path)
             THEN DirectoriesFrom(Logged(st, <<"Already exists", path>>), k + 1)
             ELSE LET r == Mkdir(st.fs, path)
                  IN  IF r.exc # ""
                      THEN [st EXCEPT !.exc = r.exc]
                      ELSE DirectoriesFrom(Logged([st EXCEPT !.fs = r.fs], <<"Created", path>>), k + 1)

\* a step of the setup is not begun after an exception
Step(st, after) == IF st.exc # "" THEN st ELSE after

CreateDirectories(st) == Step(st, DirectoriesFrom(Logged(st, <<"Creating project directories...">>), 1))

CreateInitFiles(st) ==
    Step(st, WriteIfAbsent(Logged(st, <<"Creating __init__.py files...">>),
                           "src/__init__.py", << <<"PT. MediCare Indonesia - Transportation Optimization">> >>, TRUE))

CreateGitignore(st) ==
    Step(st, WriteIfAbsent(Logged(st, <<"Checking .gitignore...">>),
                           ".gitignore", << <<"# Python">> >>, TRUE))

CreateRequirementsTxt(st) ==
    Step(st, WriteIfAbsent(Logged(st, <<"Checking requirements.txt...">>),
                           "requirements.txt", << <<"# Transportation Optimization Project Dependencies">> >>, TRUE))

CreateReadme(st) ==
    Step(st, WriteIfAbsent(Logged(st, <<"Checking README...">>),
                           "QUICKSTART.md", << <<"# Quick Start Guide">> >>, FALSE))

\* generate_data_files: DataGenerator writes its files over whatever is
\* there; it gets k of them out before something raises (k = 0: the import
\* fails, k = 4: nothing does), and the except clause logs the error
GenerateDataFiles(st, k) ==
    LET begun == Logged(st, <<"Generating data files...">>)
        made == Mkdir(st.fs, "data")
        \* a path that is a directory cannot be written: the files before it
        stop == IF \E i \in 1..k : made.fs[data_files[i]].kind = "dir"
                THEN (CHOOSE i \in 1..k : /\ made.fs[data_files[i]].kind = "dir"
                                          /\ \A h \in 1..(i - 1) : made.fs[data_files[h]].kind # "dir") - 1
                ELSE k
        written == [q \in SetupPaths |->
                       IF \E i \in 1..stop : q = data_files[i]
                       THEN File(<< <<"generated">> >>)
                       ELSE made.fs[q]]
    IN  Step(st,
             IF made.exc # ""
             THEN Logged(Logged(begun, <<"Error generating data files">>),
                         <<"Please run generate_data_files.py manually">>)
             ELSE IF stop < Len(data_files)
             THEN Logged(Logged([begun EXCEPT !.fs = written], <<"Error generating data files">>),
                         <<"Please run generate_data_files.py manually">>)
             ELSE Logged([begun EXCEPT !.fs = written], <<"All data files generated successfully">>))

\* validate_setup: one line per missing directory or file, then the verdict
ValidateSetup(st) ==
    LET missing == [k \in 1..Len(required_dirs) |->
                       IF Exists(st.fs, required_dirs[k]) THEN <<>>
                       ELSE << <<"Missing directory", required_dirs[k]>> >>]
        files == data_files \o <<"src/__init__.py">>
        lacking == [k \in 1..Len(files) |->
                       IF Exists(st.fs, files[k]) THEN <<>>
                       ELSE << <<"Missing file", files[k]>> >>]
        lines == <<  <<"Validating setup...">>  >> \o Concat(missing) \o Concat(lacking)
                 \o (IF Concat(missing) = <<>>
                     THEN <<  <<"Setup validation passed!">>  >>
                     ELSE <<  <<"Some issues found - please check above">>  >>)
    IN  Step(st, [st EXCEPT !.log = @ \o lines])

\* run_setup on a new ProjectSetup: the steps in order, then setup.log
RunSetup(fs, k) ==
    LET st0 == [fs |-> fs, log |-> <<>>, exc |-> ""]
        s1 == CreateDirectories(st0)
        s2 == CreateInitFiles(s1)
        s3 == CreateGitignore(s2)
        s4 == CreateRequirementsTxt(s3)
        s5 == GenerateDataFiles(s4, k)
        s6 == CreateReadme(s5)
        st == ValidateSetup(s6)
        w == WriteText(st.fs, "setup.log", st.log)
    IN  IF st.exc # "" THEN st
        ELSE IF w.exc # "" THEN [st EXCEPT !.exc = w.exc]
        ELSE [st EXCEPT !.fs = w.fs]

\* the sets of at most k paths
RECURSIVE PathSetsUpTo(_)
PathSetsUpTo(k) ==
    IF k = 0
    THEN {{}}
    ELSE LET smaller == PathSetsUpTo(k - 1)
         IN  smaller \cup {S \cup {q} : S \in smaller, q \in SetupPaths \ {"src"}}

\* a tree in which the paths of S are there before any setup, those of F as
\* files of the user's; what lies above a path that is there is a directory,
\* and so is src, where setup_project.py itself lies
InitialTree(S, F) ==
    [q \in SetupPaths |->
        IF q = "src" \/ \E p \in S : q \in Ancestors(p) THEN Directory
        ELSE IF q \in F THEN File(UserText)
        ELSE IF q \in S THEN Directory
        ELSE Nothing]

OnlyDisk ==
    UNCHANGED <<prog, csvFile, pc, supply, demand, costs, nchanges, model, x, solution, ret,
                solverInvoked, report, validation, work, balance, matrix, solves, objects,
                parse, excel>>

\* one method called on the ProjectSetup object
Called(op, after) ==
    /\ \E st \in {after} :
           disk' = [disk EXCEPT !.fs = st.fs, !.log = st.log, !.exc = st.exc, !.op = op,
                                !.calls = @ + 1]
    /\ OnlyDisk

OnObject == [fs |-> disk.fs, log |-> disk.log, exc |-> ""]

\* methods are called by hand before the script is run
CanCall == disk # NoDisk /\ disk.calls < MaxCalls /\ disk.runs = <<>>

create_directories ==
    /\ CanCall
    /\ Called("create_directories", CreateDirectories(OnObject))

create_init_files ==
    /\ CanCall
    /\ Called("create_init_files", CreateInitFiles(OnObject))

create_gitignore ==
    /\ CanCall
    /\ Called("create_gitignore", CreateGitignore(OnObject))

create_requirements_txt ==
    /\ CanCall
    /\ Called("create_requirements_txt", CreateRequirementsTxt(OnObject))

create_readme ==
    /\ CanCall
    /\ Called("create_readme", CreateReadme(OnObject))

\* main(): ProjectSetup().run_setup(), a first and a second time
run_setup(k) ==
    /\ disk # NoDisk
    /\ Len(disk.runs) < 2
    /\ \E st \in {RunSetup(disk.fs, k)} :
           disk' = [disk EXCEPT !.fs = st.fs, !.exc = st.exc, !.op = "run_setup",
                                !.runs = Append(@, [before |-> disk.fs, after |-> st.fs,
                                                    exc |-> st.exc])]
    /\ OnlyDisk

InitSetup ==
    /\ prog = "model_formulation"
    /\ pc = "api"
    /\ csvFile = "n/a"
    /\ supply = DefaultSupply
    /\ demand = DefaultDemand
    /\ costs = DefaultCosts
    /\ nchanges = 0
    /\ model = NoModel
    /\ x = NoX
    /\ solution = NoneSolution
    /\ ret = NoRet
    /\ solverInvoked = FALSE
    /\ report = NoReport
    /\ validation = NoValidation
    /\ work = NoWork
    /\ balance = NoBalance
    /\ matrix = NoMatrix
    /\ solves = <<>>
    /\ objects = NoObjects
    /\ parse = NoParse
    /\ excel = NoExcel
    /\ disk \in {[fs |-> InitialTree(S, F), log |-> <<>>, exc |-> "", op |-> "", calls |-> 0,
                  runs |-> <<>>] : <<S, F>> \in {SF \in PathSetsUpTo(MaxExisting) \X PathSetsUpTo(MaxExisting) :
                                                     SF[2] \subseteq SF[1]}}

NextSetup ==
    \/ create_directories
    \/ create_init_files
    \/ create_gitignore
    \/ create_requirements_txt
    \/ create_readme
    \/ \E k \in {0, Len(data_files)} : run_setup(k)

SpecSetup == InitSetup /\ [][NextSetup]_vars

(***************************************************************************)
(* What the setup leaves alone.                                            *)
(***************************************************************************)
GuardedSteps ==
    {"create_directories", "create_init_files", "create_gitignore", "create_requirements_txt",
     "create_readme"}

\* the paths run_setup writes outside those five steps
RewrittenPaths == Range(data_files) \cup {"setup.log"}

\* C29: create_directories, create_init_files, create_gitignore,
\* create_requirements_txt and create_readme never overwrite or modify a
\* directory or file that already exists -- called alone or as part of
\* run_setup, a first or a second time -- so whatever they created stays as
\* it is when they run again; only the generated data files and setup.log are
\* written anew by run_setup.
C29_StepsKeepWhatExists ==
    [][disk # NoDisk =>
          /\ disk'.op \in GuardedSteps =>
                \A q \in SetupPaths : Exists(disk.fs, q) => disk'.fs[q] = disk.fs[q]
          /\ disk'.op = "run_setup" =>
                \A q \in SetupPaths \ RewrittenPaths :
                    Exists(disk.fs, q) => disk'.fs[q] = disk.fs[q]]_vars

\* the setup has run twice over a tree that held a .gitignore of the user's:
\* that file is as it was, and so is the QUICKSTART.md the first run created
C29_Witness ==
    /\ disk # NoDisk
    /\ Len(disk.runs) = 2
    /\ disk.runs[1].exc = "" /\ disk.runs[2].exc = ""
    /\ disk.runs[1].before[".gitignore"] = File(UserText)
    /\ disk.fs[".gitignore"] = File(UserText)
    /\ ~Exists(disk.runs[1].before, "QUICKSTART.md")
    /\ Exists(disk.runs[1].after, "QUICKSTART.md")
    /\ disk.fs["QUICKSTART.md"] = disk.runs[1].after["QUICKSTART.md"]

\* C29 as stated: running the setup a second time leaves every file created
\* by the first run unchanged.
C29_SecondRunChangesNothing ==
    (disk # NoDisk /\ Len(disk.runs) = 2 /\ disk.runs[1].exc = "" /\ disk.runs[2].exc = "") =>
        \A q \in SetupPaths :
            (~Exists(disk.runs[1].before, q) /\ Exists(disk.runs[1].after, q)) =>
                disk.runs[2].after[q] = disk.runs[1].after[q]

====
